---- MODULE Spec2Model ----
(***************************************************************************)
(* DriveThing: the Convex backend (convex/folders.ts, convex/files.ts,     *)
(* convex/families.ts).  The store is the users, folders and files tables; *)
(* every mutation handler is one atomic transaction on it, and a handler   *)
(* that throws leaves the store as it was.  Read queries are operators     *)
(* over the store.                                                         *)
(***************************************************************************)
EXTENDS Integers, Sequences, FiniteSets, TLC

VARIABLES users, folders, files, nextFolderId, nextFileId, last, prev

vars == <<users, folders, files, nextFolderId, nextFileId, last, prev>>

(***************************************************************************)
(* Bounds of the model.                                                    *)
(***************************************************************************)
MaxFolders == 3
MaxFiles == 1
MaxVisFolders == 1
MaxVisFiles == 1
MaxOpsFolders == 1
MaxOpsFiles == 1
MaxFamFolders == 1
MaxFamFiles == 1
MaxFamilies == 3
MaxBulkFolders == 1
MaxBulkFiles == 2
MaxMoveFolders == 2
MaxMoveFiles == 1
MaxRaceFolders == 3
MaxIsoFolders == 2
MaxIsoFiles == 2

(***************************************************************************)
(* An absent optional field (v.optional(...)) or a null document.  Ids of  *)
(* documents are positive; Convex never reuses the id of a deleted         *)
(* document, which nextFolderId / nextFileId model.                        *)
(***************************************************************************)
None == 0

FolderIds == 1..MaxFolders
FileIds == 1..MaxFiles

(* An optional array (folders.assignedTo): <<>> is undefined, <<S>> is the  *)
(* array with the elements S.                                              *)
Undefined == <<>>
Arr(S) == <<S>>
IsDefined(a) == Len(a) = 1
Elems(a) == IF Len(a) = 1 THEN a[1] ELSE {}

(* a?.includes(x) *)
Includes(a, x) == IsDefined(a) /\ x \in a[1]

(* The elements of a finite set of ids in creation (index) order. *)
RECURSIVE InOrder(_)
InOrder(S) ==
  IF S = {} THEN <<>>
  ELSE LET m == CHOOSE x \in S : \A y \in S : x <= y
       IN <<m>> \o InOrder(S \ {m})

RECURSIVE Flatten(_)
Flatten(ss) == IF ss = <<>> THEN <<>> ELSE Head(ss) \o Flatten(Tail(ss))

Range(s) == {s[i] : i \in DOMAIN s}

Without(tbl, D) == [i \in DOMAIN tbl \ D |-> tbl[i]]

(***************************************************************************)
(* ctx.db.query("users").withIndex("by_clerk_id").unique(): the user of a  *)
(* clerk id, or None.  A user's clerk id is modelled by the user's id.     *)
(***************************************************************************)
userOf(clerkId) == IF clerkId \in DOMAIN users THEN clerkId ELSE None

(***************************************************************************)
(* The outcome of a mutation handler: ok = FALSE is a thrown error, which  *)
(* aborts the transaction with the store unchanged.                        *)
(***************************************************************************)
Throw ==
  [ok |-> FALSE, folders |-> folders, files |-> files,
   nextFolderId |-> nextFolderId, nextFileId |-> nextFileId, ret |-> <<>>]

Done(fo, fi, r) ==
  [ok |-> TRUE, folders |-> fo, files |-> fi,
   nextFolderId |-> nextFolderId, nextFileId |-> nextFileId, ret |-> r]

(***************************************************************************)
(* folders.ts: createFolder                                                *)
(***************************************************************************)
createFolder(clerkId, name, parentFolderId, assignedTo) ==
  LET user == userOf(clerkId) IN
  IF user = None \/ users[user].familyId = None THEN Throw
  ELSE IF users[user].role # "owner" THEN Throw
  ELSE IF parentFolderId # None
          /\ (parentFolderId \notin DOMAIN folders
              \/ folders[parentFolderId].familyId # users[user].familyId)
       THEN Throw
  ELSE LET stored == IF IsDefined(assignedTo) /\ Elems(assignedTo) # {}
                     THEN assignedTo ELSE Undefined
           doc == [name |-> name,
                   parentFolderId |-> parentFolderId,
                   createdBy |-> user,
                   assignedTo |-> stored,
                   familyId |-> users[user].familyId,
                   sharedWithFamily |-> FALSE,
                   sharedWith |-> {}]
       IN [Done(folders @@ (nextFolderId :> doc), files, <<nextFolderId>>)
             EXCEPT !.nextFolderId = nextFolderId + 1]

(***************************************************************************)
(* folders.ts: moveFolder.  The while loop walks the parent chain of the   *)
(* target; on a chain that loops it never ends, and the mutation is        *)
(* aborted by the platform: "loop".                                        *)
(***************************************************************************)
RECURSIVE walkParents(_, _, _)
walkParents(currentParent, folderId, visited) ==
  IF currentParent = None THEN "end"
  ELSE IF currentParent = folderId THEN "hit"
  ELSE IF currentParent \in visited THEN "loop"
  ELSE walkParents(IF currentParent \in DOMAIN folders
                   THEN folders[currentParent].parentFolderId ELSE None,
                   folderId, visited \cup {currentParent})

(* The walk made on the folders table as it was when the concurrent calls  *)
(* were issued (prev.folders), not on the table at the call's own commit.  *)
RECURSIVE walkParentsIn(_, _, _, _)
walkParentsIn(fo, currentParent, folderId, visited) ==
  IF currentParent = None THEN "end"
  ELSE IF currentParent = folderId THEN "hit"
  ELSE IF currentParent \in visited THEN "loop"
  ELSE walkParentsIn(fo,
                     IF currentParent \in DOMAIN fo
                     THEN fo[currentParent].parentFolderId ELSE None,
                     folderId, visited \cup {currentParent})

walkRejectsOnSnapshot(folderId, newParentFolderId) ==
  walkParentsIn(prev.folders, newParentFolderId, folderId, {}) # "end"

(* The walk with the self test alone: a move under a descendant passes. *)
selfOnly(folderId, newParentFolderId) == newParentFolderId = folderId

(* The walk stopped after the target's own parent. *)
oneLevelWalk(folderId, newParentFolderId) ==
  \/ newParentFolderId = folderId
  \/ /\ newParentFolderId \in DOMAIN folders
     /\ folders[newParentFolderId].parentFolderId = folderId

(* folders.ts 260-268: the walk throws (or never ends). *)
(* folders.ts 260-268: the ids the while loop of moveFolder passes to      *)
(* ctx.db.get before it ends: the loop ends at a folder without parent, at *)
(* a missing folder (after the get that returns null) or, with the throw,  *)
(* at the moved folder itself (before the get).  On a chain that loops it  *)
(* never ends; the ids met until then are returned.                        *)
RECURSIVE walkGets(_, _, _)
walkGets(currentParent, folderId, visited) ==
  IF currentParent = None \/ currentParent = folderId \/ currentParent \in visited
  THEN visited
  ELSE walkGets(IF currentParent \in DOMAIN folders
                THEN folders[currentParent].parentFolderId ELSE None,
                folderId, visited \cup {currentParent})

walkRejects(folderId, newParentFolderId) ==
  walkParents(newParentFolderId, folderId, {}) # "end"

moveFolder(clerkId, folderId, newParentFolderId) ==
  LET user == userOf(clerkId) IN
  IF user = None THEN Throw
  ELSE IF folderId \notin DOMAIN folders THEN Throw
  ELSE IF users[user].role # "owner" \/ folders[folderId].createdBy # user THEN Throw
  ELSE IF newParentFolderId # None /\ walkRejects(folderId, newParentFolderId)
       THEN Throw
  ELSE IF newParentFolderId # None
          /\ (newParentFolderId \notin DOMAIN folders
              \/ folders[newParentFolderId].familyId # folders[folderId].familyId)
       THEN Throw
  ELSE Done([folders EXCEPT ![folderId].parentFolderId = newParentFolderId],
            files, <<>>)

(***************************************************************************)
(* folders.ts: deleteFolder.  With deleteContents the handler deletes the  *)
(* files of the folder, then for each direct subfolder that subfolder's    *)
(* files and the subfolder; without it, it moves the direct files and      *)
(* subfolders to the folder's parent.  The folder itself is deleted last.  *)
(***************************************************************************)
filesIn(folderId) == {f \in DOMAIN files : files[f].folderId = folderId}
subfoldersOf(folderId) == {g \in DOMAIN folders : folders[g].parentFolderId = folderId}

(* file.fileKey of each file of S, in index order *)
keysOf(S) == [i \in DOMAIN InOrder(S) |-> files[InOrder(S)[i]].fileKey]

(* The deleteContents branch without the push of the subfolders' file keys. *)
deleteContentsDropSubKeys(folderId) ==
  LET filesInFolder == filesIn(folderId)
      subfolders == subfoldersOf(folderId)
      subfiles == UNION {filesIn(g) : g \in subfolders}
  IN Done(Without(folders, subfolders \cup {folderId}),
          Without(files, filesInFolder \cup subfiles),
          keysOf(filesInFolder))

(* folders.ts 122-141, 157-159 *)
deleteContentsBranch(folderId) ==
  LET filesInFolder == filesIn(folderId)
      subfolders == subfoldersOf(folderId)
      subs == InOrder(subfolders)
      subfiles == UNION {filesIn(g) : g \in subfolders}
      fileKeysToDelete ==
        keysOf(filesInFolder)
          \o Flatten([i \in DOMAIN subs |-> keysOf(filesIn(subs[i]))])
  IN Done(Without(folders, subfolders \cup {folderId}),
          Without(files, filesInFolder \cup subfiles),
          fileKeysToDelete)

(* The move-to-parent branch moving everything to the root instead. *)
moveContentsToRoot(folderId) ==
  LET filesInFolder == filesIn(folderId)
      subfolders == subfoldersOf(folderId)
  IN Done(Without([g \in DOMAIN folders |->
                     IF g \in subfolders
                     THEN [folders[g] EXCEPT !.parentFolderId = None]
                     ELSE folders[g]],
                  {folderId}),
          [f \in DOMAIN files |->
             IF f \in filesInFolder
             THEN [files[f] EXCEPT !.folderId = None]
             ELSE files[f]],
          <<>>)

(* folders.ts 142-154, 157-159 *)
moveContentsBranch(folderId) ==
  LET folder == folders[folderId]
      filesInFolder == filesIn(folderId)
      subfolders == subfoldersOf(folderId)
  IN Done(Without([g \in DOMAIN folders |->
                     IF g \in subfolders
                     THEN [folders[g] EXCEPT !.parentFolderId = folder.parentFolderId]
                     ELSE folders[g]],
                  {folderId}),
          [f \in DOMAIN files |->
             IF f \in filesInFolder
             THEN [files[f] EXCEPT !.folderId = folder.parentFolderId]
             ELSE files[f]],
          <<>>)

deleteFolder(clerkId, folderId, deleteContents) ==
  LET user == userOf(clerkId) IN
  IF user = None THEN Throw
  ELSE IF folderId \notin DOMAIN folders THEN Throw
  ELSE IF users[user].role # "owner" \/ folders[folderId].createdBy # user THEN Throw
  ELSE IF deleteContents THEN deleteContentsBranch(folderId)
  ELSE moveContentsBranch(folderId)

(***************************************************************************)
(* files.ts: createFile.  fileKey is the key the upload service gave the   *)
(* uploaded object (file-uploader.tsx: result.key).  The fields url, type, *)
(* size, originalName and createdAt are never read by a check and are left *)
(* out of the document.                                                    *)
(***************************************************************************)
(* createFile without the role test: any user of a family may upload. *)
createFileAnyRole(clerkId, name, fileKey, assignedTo, tags, folderId) ==
  LET user == userOf(clerkId) IN
  IF user = None \/ users[user].familyId = None THEN Throw
  ELSE IF folderId # None
          /\ (folderId \notin DOMAIN folders
              \/ folders[folderId].familyId # users[user].familyId)
       THEN Throw
  ELSE LET doc == [name |-> name,
                   fileKey |-> fileKey,
                   uploadedBy |-> user,
                   assignedTo |-> assignedTo,
                   familyId |-> users[user].familyId,
                   folderId |-> folderId,
                   tags |-> tags,
                   sharedWithFamily |-> FALSE,
                   sharedWith |-> {}]
       IN [Done(folders, files @@ (nextFileId :> doc), <<nextFileId>>)
             EXCEPT !.nextFileId = nextFileId + 1]

createFile(clerkId, name, fileKey, assignedTo, tags, folderId) ==
  LET user == userOf(clerkId) IN
  IF user = None \/ users[user].familyId = None THEN Throw
  ELSE IF users[user].role # "owner" THEN Throw
  ELSE IF folderId # None
          /\ (folderId \notin DOMAIN folders
              \/ folders[folderId].familyId # users[user].familyId)
       THEN Throw
  ELSE LET doc == [name |-> name,
                   fileKey |-> fileKey,
                   uploadedBy |-> user,
                   assignedTo |-> assignedTo,
                   familyId |-> users[user].familyId,
                   folderId |-> folderId,
                   tags |-> tags,
                   sharedWithFamily |-> FALSE,
                   sharedWith |-> {}]
       IN [Done(folders, files @@ (nextFileId :> doc), <<nextFileId>>)
             EXCEPT !.nextFileId = nextFileId + 1]

(***************************************************************************)
(* files.ts: moveFile                                                      *)
(***************************************************************************)
(* moveFile that also withdraws the sharing with the family. *)
moveFileUnshares(clerkId, fileId, folderId) ==
  LET user == userOf(clerkId) IN
  IF user = None THEN Throw
  ELSE IF fileId \notin DOMAIN files THEN Throw
  ELSE IF users[user].role # "owner" \/ files[fileId].uploadedBy # user THEN Throw
  ELSE IF folderId # None
          /\ (folderId \notin DOMAIN folders
              \/ folders[folderId].familyId # files[fileId].familyId)
       THEN Throw
  ELSE Done(folders,
            [files EXCEPT ![fileId].folderId = folderId,
                          ![fileId].sharedWithFamily = FALSE],
            <<>>)

(* moveFile without the validation of the target folder. *)
moveFileAnyTarget(clerkId, fileId, folderId) ==
  LET user == userOf(clerkId) IN
  IF user = None THEN Throw
  ELSE IF fileId \notin DOMAIN files THEN Throw
  ELSE IF users[user].role # "owner" \/ files[fileId].uploadedBy # user THEN Throw
  ELSE Done(folders, [files EXCEPT ![fileId].folderId = folderId], <<>>)

moveFile(clerkId, fileId, folderId) ==
  LET user == userOf(clerkId) IN
  IF user = None THEN Throw
  ELSE IF fileId \notin DOMAIN files THEN Throw
  ELSE IF users[user].role # "owner" \/ files[fileId].uploadedBy # user THEN Throw
  ELSE IF folderId # None
          /\ (folderId \notin DOMAIN folders
              \/ folders[folderId].familyId # files[fileId].familyId)
       THEN Throw
  ELSE Done(folders, [files EXCEPT ![fileId].folderId = folderId], <<>>)

(***************************************************************************)
(* files.ts: bulkMoveFiles.  fileIds is the set of the listed ids; a       *)
(* missing file or one the caller did not upload is skipped.               *)
(***************************************************************************)
(* bulkMoveFiles without the test of the uploader. *)
bulkMoveFilesAnyUploader(clerkId, fileIds, folderId) ==
  LET user == userOf(clerkId) IN
  IF user = None \/ users[user].role # "owner" THEN Throw
  ELSE IF folderId # None
          /\ (folderId \notin DOMAIN folders
              \/ folders[folderId].familyId # users[user].familyId)
       THEN Throw
  ELSE Done(folders,
            [f \in DOMAIN files |->
               IF f \in fileIds
               THEN [files[f] EXCEPT !.folderId = folderId]
               ELSE files[f]],
            <<>>)

bulkMoveFiles(clerkId, fileIds, folderId) ==
  LET user == userOf(clerkId) IN
  IF user = None \/ users[user].role # "owner" THEN Throw
  ELSE IF folderId # None
          /\ (folderId \notin DOMAIN folders
              \/ folders[folderId].familyId # users[user].familyId)
       THEN Throw
  ELSE Done(folders,
            [f \in DOMAIN files |->
               IF f \in fileIds /\ files[f].uploadedBy = user
               THEN [files[f] EXCEPT !.folderId = folderId]
               ELSE files[f]],
            <<>>)

(***************************************************************************)
(* folders.ts: updateFolderAssignment, updateFolderSharing                 *)
(***************************************************************************)
(* updateFolderAssignment storing the argument as given, empty or not. *)
updateFolderAssignmentAsGiven(clerkId, folderId, assignedTo) ==
  LET user == userOf(clerkId) IN
  IF user = None THEN Throw
  ELSE IF folderId \notin DOMAIN folders THEN Throw
  ELSE IF users[user].role # "owner" \/ folders[folderId].createdBy # user THEN Throw
  ELSE Done([folders EXCEPT ![folderId].assignedTo = assignedTo], files, <<>>)

updateFolderAssignment(clerkId, folderId, assignedTo) ==
  LET user == userOf(clerkId) IN
  IF user = None THEN Throw
  ELSE IF folderId \notin DOMAIN folders THEN Throw
  ELSE IF users[user].role # "owner" \/ folders[folderId].createdBy # user THEN Throw
  ELSE LET stored == IF IsDefined(assignedTo) /\ Elems(assignedTo) # {}
                     THEN assignedTo ELSE Undefined
       IN Done([folders EXCEPT ![folderId].assignedTo = stored], files, <<>>)

(* updateFolderSharing without the canShare test. *)
updateFolderSharingAnyUser(clerkId, folderId, shareWithFamily, sharedWith) ==
  LET user == userOf(clerkId) IN
  IF user = None THEN Throw
  ELSE IF folderId \notin DOMAIN folders THEN Throw
  ELSE Done([folders EXCEPT ![folderId].sharedWithFamily = shareWithFamily,
                            ![folderId].sharedWith = sharedWith],
            files, <<>>)

updateFolderSharing(clerkId, folderId, shareWithFamily, sharedWith) ==
  LET user == userOf(clerkId) IN
  IF user = None THEN Throw
  ELSE IF folderId \notin DOMAIN folders THEN Throw
  ELSE IF ~(\/ folders[folderId].createdBy = user
            \/ Includes(folders[folderId].assignedTo, user))
       THEN Throw
  ELSE Done([folders EXCEPT ![folderId].sharedWithFamily = shareWithFamily,
                            ![folderId].sharedWith = sharedWith],
            files, <<>>)

(***************************************************************************)
(* files.ts: updateFileSharing, toggleShareFile, updateFileAssignment      *)
(***************************************************************************)
updateFileSharing(clerkId, fileId, shareWithFamily, sharedWith) ==
  LET user == userOf(clerkId) IN
  IF user = None THEN Throw
  ELSE IF fileId \notin DOMAIN files THEN Throw
  ELSE IF ~(files[fileId].uploadedBy = user \/ files[fileId].assignedTo = user)
       THEN Throw
  ELSE Done(folders,
            [files EXCEPT ![fileId].sharedWithFamily = shareWithFamily,
                          ![fileId].sharedWith = sharedWith],
            <<>>)

toggleShareFile(clerkId, fileId) ==
  LET user == userOf(clerkId) IN
  IF user = None THEN Throw
  ELSE IF fileId \notin DOMAIN files THEN Throw
  ELSE IF ~(files[fileId].uploadedBy = user \/ files[fileId].assignedTo = user)
       THEN Throw
  ELSE Done(folders,
            [files EXCEPT ![fileId].sharedWithFamily = ~files[fileId].sharedWithFamily],
            <<~files[fileId].sharedWithFamily>>)

updateFileAssignment(clerkId, fileId, assignedTo) ==
  LET user == userOf(clerkId) IN
  IF user = None \/ users[user].role # "owner" THEN Throw
  ELSE IF fileId \notin DOMAIN files \/ files[fileId].uploadedBy # user THEN Throw
  ELSE Done(folders, [files EXCEPT ![fileId].assignedTo = assignedTo], <<>>)

(***************************************************************************)
(* Read queries.  A query's result is modelled by the set of the ids of    *)
(* the documents it returns; the added display names, the item counts and  *)
(* the final sort by name do not change that set.                          *)
(***************************************************************************)

(* folders.ts: getMyFolders.  The by_parent index with an undefined        *)
(* parentFolderId yields the root-level folders.                           *)
getMyFolders(clerkId, parentFolderId) ==
  LET user == userOf(clerkId) IN
  IF user = None \/ users[user].familyId = None THEN {}
  ELSE LET allFolders == {g \in DOMAIN folders :
                            folders[g].parentFolderId = parentFolderId}
           familyFolders == {g \in allFolders :
                               folders[g].familyId = users[user].familyId}
       IN IF users[user].role = "owner"
          THEN {g \in familyFolders : folders[g].createdBy = user}
          ELSE {g \in familyFolders :
                  \/ Includes(folders[g].assignedTo, user)
                  \/ ~IsDefined(folders[g].assignedTo)
                  \/ Elems(folders[g].assignedTo) = {}}

(* The filter of getSharedFolders without the test of the creator. *)
sharedFolderFilterNoCreator(user, g) ==
  /\ folders[g].familyId = users[user].familyId
  /\ ~Includes(folders[g].assignedTo, user)
  /\ ~(~IsDefined(folders[g].assignedTo) \/ Elems(folders[g].assignedTo) = {})
  /\ (folders[g].sharedWithFamily \/ user \in folders[g].sharedWith)

(* folders.ts 382-395 *)
sharedFolderFilter(user, g) ==
  /\ folders[g].familyId = users[user].familyId
  /\ folders[g].createdBy # user
  /\ ~Includes(folders[g].assignedTo, user)
  /\ ~(~IsDefined(folders[g].assignedTo) \/ Elems(folders[g].assignedTo) = {})
  /\ (folders[g].sharedWithFamily \/ user \in folders[g].sharedWith)

(* folders.ts: getSharedFolders *)
getSharedFolders(clerkId, parentFolderId) ==
  LET user == userOf(clerkId) IN
  IF user = None \/ users[user].familyId = None THEN {}
  ELSE {g \in DOMAIN folders :
          folders[g].parentFolderId = parentFolderId /\ sharedFolderFilter(user, g)}

(* The folder filter without the familyId test on the files of a folder. *)
filesInScopeNoFamilyTest(familyId, folderId, rootOnly) ==
  IF folderId # None
  THEN {f \in DOMAIN files : files[f].folderId = folderId}
  ELSE IF rootOnly
  THEN {f \in DOMAIN files : files[f].familyId = familyId /\ files[f].folderId = None}
  ELSE {f \in DOMAIN files : files[f].familyId = familyId}

(* files.ts 123-149 and 203-225: the files the folder filter selects.      *)
(* folderId wins over rootOnly; with neither, all files of the family.     *)
filesInScope(familyId, folderId, rootOnly) ==
  IF folderId # None
  THEN {f \in DOMAIN files : files[f].folderId = folderId /\ files[f].familyId = familyId}
  ELSE IF rootOnly
  THEN {f \in DOMAIN files : files[f].familyId = familyId /\ files[f].folderId = None}
  ELSE {f \in DOMAIN files : files[f].familyId = familyId}

(* files.ts: getMyFiles *)
getMyFiles(clerkId, folderId, rootOnly) ==
  LET user == userOf(clerkId) IN
  IF user = None \/ users[user].familyId = None THEN {}
  ELSE LET allFamilyFiles == filesInScope(users[user].familyId, folderId, rootOnly)
       IN IF users[user].role = "owner"
          THEN {f \in allFamilyFiles : files[f].uploadedBy = user}
          ELSE {f \in allFamilyFiles :
                  files[f].assignedTo = user \/ files[f].assignedTo = None}

(* files.ts 237: folder.assignedTo === user._id compares the stored array  *)
(* with an id, which is false for every array.                             *)
arrayStrictEqualsId(assignedTo, user) == FALSE

(* files.ts 233-242: the folders whose files are shown as shared *)
sharedFolderIds(user) ==
  {g \in DOMAIN folders :
     /\ folders[g].familyId = users[user].familyId
     /\ folders[g].createdBy # user
     /\ ~arrayStrictEqualsId(folders[g].assignedTo, user)
     /\ IsDefined(folders[g].assignedTo)
     /\ (folders[g].sharedWithFamily \/ user \in folders[g].sharedWith)}

(* The filter of getSharedFiles without the test for an assignee. *)
sharedFileFilterNoUnassigned(user, f) ==
  /\ files[f].assignedTo # user
  /\ files[f].uploadedBy # user
  /\ \/ files[f].sharedWithFamily
     \/ user \in files[f].sharedWith
     \/ (files[f].folderId # None /\ files[f].folderId \in sharedFolderIds(user))

(* The filter of getSharedFiles without the sharedWithFamily flag. *)
sharedFileFilterNoFamilyFlag(user, f) ==
  /\ files[f].assignedTo # None
  /\ files[f].assignedTo # user
  /\ files[f].uploadedBy # user
  /\ \/ user \in files[f].sharedWith
     \/ (files[f].folderId # None /\ files[f].folderId \in sharedFolderIds(user))

(* The filter of getSharedFiles without the test of the uploader. *)
sharedFileFilterNoUploader(user, f) ==
  /\ files[f].assignedTo # None
  /\ files[f].assignedTo # user
  /\ \/ files[f].sharedWithFamily
     \/ user \in files[f].sharedWith
     \/ (files[f].folderId # None /\ files[f].folderId \in sharedFolderIds(user))

(* The filter of getSharedFiles without the files of shared folders. *)
sharedFileFilterNoFolders(user, f) ==
  /\ files[f].assignedTo # None
  /\ files[f].assignedTo # user
  /\ files[f].uploadedBy # user
  /\ \/ files[f].sharedWithFamily
     \/ user \in files[f].sharedWith

(* files.ts 245-258 *)
sharedFileFilter(user, f) ==
  /\ files[f].assignedTo # None
  /\ files[f].assignedTo # user
  /\ files[f].uploadedBy # user
  /\ \/ files[f].sharedWithFamily
     \/ user \in files[f].sharedWith
     \/ (files[f].folderId # None /\ files[f].folderId \in sharedFolderIds(user))

(* files.ts: getSharedFiles *)
getSharedFiles(clerkId, folderId, rootOnly) ==
  LET user == userOf(clerkId) IN
  IF user = None \/ users[user].familyId = None THEN {}
  ELSE {f \in filesInScope(users[user].familyId, folderId, rootOnly) :
          sharedFileFilter(user, f)}

(* files.ts: getAllFamilyFiles *)
getAllFamilyFiles(clerkId) ==
  LET user == userOf(clerkId) IN
  IF user = None \/ users[user].familyId = None THEN {}
  ELSE {f \in DOMAIN files : files[f].familyId = users[user].familyId}

(* files.ts 525-542: the search term matches the file name, a tag or the   *)
(* name of the file's folder; the empty term is contained in every name.   *)
(* Names are single letters, so containment is equality.  (The match on    *)
(* the assignee's display name is left out: users carry no name here.)     *)
matchesTerm(f, term) ==
  \/ term = ""
  \/ files[f].name = term
  \/ term \in files[f].tags
  \/ /\ files[f].folderId \in DOMAIN folders
     /\ folders[files[f].folderId].familyId = files[f].familyId
     /\ folders[files[f].folderId].name = term

(* files.ts: searchFiles *)
searchFiles(clerkId, searchTerm) ==
  LET user == userOf(clerkId) IN
  IF user = None \/ users[user].familyId = None THEN {}
  ELSE LET allFamilyFiles == {f \in DOMAIN files :
                                files[f].familyId = users[user].familyId}
           myFiles == IF users[user].role = "owner" THEN allFamilyFiles
                      ELSE {f \in allFamilyFiles :
                              files[f].assignedTo = user \/ files[f].assignedTo = None}
       IN {f \in myFiles : matchesTerm(f, searchTerm)}

(* getFolderContents without the canAccess test. *)
getFolderContentsNoAccessTest(clerkId, folderId) ==
  LET user == userOf(clerkId)
      empty == [folder |-> None, files |-> {}, subfolders |-> {}]
  IN
  IF user = None \/ users[user].familyId = None THEN empty
  ELSE IF folderId \notin DOMAIN folders
          \/ folders[folderId].familyId # users[user].familyId
       THEN empty
  ELSE [folder |-> folderId,
        files |-> filesIn(folderId),
        subfolders |-> subfoldersOf(folderId)]

(* folders.ts: getFolderContents.  folder = None is the "folder: null"     *)
(* result.                                                                 *)
getFolderContents(clerkId, folderId) ==
  LET user == userOf(clerkId)
      empty == [folder |-> None, files |-> {}, subfolders |-> {}]
  IN
  IF user = None \/ users[user].familyId = None THEN empty
  ELSE IF folderId \notin DOMAIN folders
          \/ folders[folderId].familyId # users[user].familyId
       THEN empty
  ELSE IF ~(\/ folders[folderId].createdBy = user
            \/ Includes(folders[folderId].assignedTo, user)
            \/ ~IsDefined(folders[folderId].assignedTo)
            \/ Elems(folders[folderId].assignedTo) = {}
            \/ folders[folderId].sharedWithFamily
            \/ user \in folders[folderId].sharedWith)
       THEN empty
  ELSE [folder |-> folderId,
        files |-> filesIn(folderId),
        subfolders |-> subfoldersOf(folderId)]

(***************************************************************************)
(* folders.ts: getFolderPath.  The while loop (558-566) follows            *)
(* parentFolderId from the target and puts each folder in front of the     *)
(* path; it ends at a folder without parent, at a missing folder or at a   *)
(* folder of another family.  On a chain that loops it never ends and the  *)
(* platform aborts the query: ok = FALSE.  path holds the ids from the     *)
(* topmost folder reached down to the target, gets the number of           *)
(* ctx.db.get calls made.                                                  *)
(***************************************************************************)
RECURSIVE pathWalk(_, _, _, _)
pathWalk(familyId, currentFolderId, path, gets) ==
  IF currentFolderId = None THEN [ok |-> TRUE, path |-> path, gets |-> gets]
  ELSE IF currentFolderId \in Range(path)
       THEN [ok |-> FALSE, path |-> <<>>, gets |-> gets]
  ELSE IF currentFolderId \notin DOMAIN folders
          \/ folders[currentFolderId].familyId # familyId
       THEN [ok |-> TRUE, path |-> path, gets |-> gets + 1]
  ELSE pathWalk(familyId, folders[currentFolderId].parentFolderId,
                <<currentFolderId>> \o path, gets + 1)

getFolderPath(clerkId, folderId) ==
  LET user == userOf(clerkId)
      empty == [ok |-> TRUE, path |-> <<>>, gets |-> 0]
  IN
  IF folderId = None THEN empty
  ELSE IF user = None \/ users[user].familyId = None THEN empty
  ELSE pathWalk(users[user].familyId, folderId, <<>>, 0)

(* folders.ts: getAllFoldersForPicker *)
getAllFoldersForPicker(clerkId) ==
  LET user == userOf(clerkId) IN
  IF user = None \/ users[user].familyId = None \/ users[user].role # "owner"
  THEN {}
  ELSE {g \in DOMAIN folders :
          folders[g].familyId = users[user].familyId /\ folders[g].createdBy = user}

(***************************************************************************)
(* folders.ts: renameFolder                                                *)
(***************************************************************************)
renameFolder(clerkId, folderId, newName) ==
  LET user == userOf(clerkId) IN
  IF user = None THEN Throw
  ELSE IF folderId \notin DOMAIN folders THEN Throw
  ELSE IF users[user].role # "owner" \/ folders[folderId].createdBy # user THEN Throw
  ELSE Done([folders EXCEPT ![folderId].name = newName], files, <<>>)

(***************************************************************************)
(* files.ts: deleteFile, renameFile, updateFileTags.  deleteFile and       *)
(* renameFile return { fileKey }.                                          *)
(***************************************************************************)
(* deleteFile without the uploader test: any owner may delete any file. *)
deleteFileAnyUploader(clerkId, fileId) ==
  LET user == userOf(clerkId) IN
  IF user = None THEN Throw
  ELSE IF fileId \notin DOMAIN files THEN Throw
  ELSE IF users[user].role # "owner" THEN Throw
  ELSE Done(folders, Without(files, {fileId}), <<files[fileId].fileKey>>)

deleteFile(clerkId, fileId) ==
  LET user == userOf(clerkId) IN
  IF user = None THEN Throw
  ELSE IF fileId \notin DOMAIN files THEN Throw
  ELSE IF users[user].role # "owner" \/ files[fileId].uploadedBy # user THEN Throw
  ELSE Done(folders, Without(files, {fileId}), <<files[fileId].fileKey>>)

(* renameFile without the test of the uploader. *)
renameFileAnyUser(clerkId, fileId, newName) ==
  LET user == userOf(clerkId) IN
  IF user = None THEN Throw
  ELSE IF fileId \notin DOMAIN files THEN Throw
  ELSE Done(folders, [files EXCEPT ![fileId].name = newName],
            <<files[fileId].fileKey>>)

renameFile(clerkId, fileId, newName) ==
  LET user == userOf(clerkId) IN
  IF user = None THEN Throw
  ELSE IF fileId \notin DOMAIN files \/ files[fileId].uploadedBy # user THEN Throw
  ELSE Done(folders, [files EXCEPT ![fileId].name = newName],
            <<files[fileId].fileKey>>)

updateFileTags(clerkId, fileId, tags) ==
  LET user == userOf(clerkId) IN
  IF user = None \/ users[user].role # "owner" THEN Throw
  ELSE IF fileId \notin DOMAIN files \/ files[fileId].uploadedBy # user THEN Throw
  ELSE Done(folders, [files EXCEPT ![fileId].tags = tags], <<>>)

(***************************************************************************)
(* files.ts: bulkDeleteFiles.  fileIds is the array of the listed ids, in  *)
(* order and with its repetitions; the loop (646-654) deletes a listed     *)
(* file the caller uploaded and pushes its key, and skips any other id.    *)
(* acc is the files table and the fileKeys array so far.                   *)
(***************************************************************************)
(* The loop of bulkDeleteFiles without the test of the uploader. *)
RECURSIVE deleteListedAnyUploader(_, _, _)
deleteListedAnyUploader(user, fileIds, acc) ==
  IF fileIds = <<>> THEN acc
  ELSE LET fileId == Head(fileIds) IN
       IF fileId \in DOMAIN acc.files
       THEN deleteListedAnyUploader(user, Tail(fileIds),
                         [files |-> Without(acc.files, {fileId}),
                          fileKeys |-> Append(acc.fileKeys, acc.files[fileId].fileKey)])
       ELSE deleteListedAnyUploader(user, Tail(fileIds), acc)

RECURSIVE deleteListed(_, _, _)
deleteListed(user, fileIds, acc) ==
  IF fileIds = <<>> THEN acc
  ELSE LET fileId == Head(fileIds) IN
       IF fileId \in DOMAIN acc.files /\ acc.files[fileId].uploadedBy = user
       THEN deleteListed(user, Tail(fileIds),
                         [files |-> Without(acc.files, {fileId}),
                          fileKeys |-> Append(acc.fileKeys, acc.files[fileId].fileKey)])
       ELSE deleteListed(user, Tail(fileIds), acc)

bulkDeleteFiles(clerkId, fileIds) ==
  LET user == userOf(clerkId) IN
  IF user = None \/ users[user].role # "owner" THEN Throw
  ELSE LET end == deleteListed(user, fileIds, [files |-> files, fileKeys |-> <<>>])
       IN Done(folders, end.files, end.fileKeys)

(***************************************************************************)
(* files.ts: bulkAssignFiles.  fileIds is the set of the listed ids.       *)
(***************************************************************************)
bulkAssignFiles(clerkId, fileIds, assignedTo) ==
  LET user == userOf(clerkId) IN
  IF user = None \/ users[user].role # "owner" THEN Throw
  ELSE Done(folders,
            [f \in DOMAIN files |->
               IF f \in fileIds /\ files[f].uploadedBy = user
               THEN [files[f] EXCEPT !.assignedTo = assignedTo]
               ELSE files[f]],
            <<>>)

(***************************************************************************)
(* families.ts.  The handlers write the users table only; their outcome    *)
(* carries it.  A user outside every family has familyId = None and the    *)
(* role NoRole (both fields undefined).  No handler deletes a family and   *)
(* the owner of a family never leaves it (leaveFamily 107, removeMember    *)
(* 185), so the ids of the families table are the familyIds of the users;  *)
(* the insert of createFamily yields the next id.  An invite code is       *)
(* modelled by the id of the family that carries it.                       *)
(***************************************************************************)
NoRole == "none"

UThrow == [ok |-> FALSE, users |-> users, ret |-> <<>>]

UDone(us, r) == [ok |-> TRUE, users |-> us, ret |-> r]

familyIds == {users[u].familyId : u \in DOMAIN users} \ {None}

nextFamilyId == Cardinality(familyIds) + 1

familyByInviteCode(inviteCode) ==
  IF inviteCode \in familyIds THEN inviteCode ELSE None

createFamily(clerkId) ==
  LET user == userOf(clerkId) IN
  IF user = None THEN UThrow
  ELSE IF users[user].familyId # None THEN UThrow
  ELSE UDone([users EXCEPT ![user] = [familyId |-> nextFamilyId, role |-> "owner"]],
             <<nextFamilyId>>)

joinFamily(clerkId, inviteCode) ==
  LET user == userOf(clerkId)
      family == familyByInviteCode(inviteCode)
  IN
  IF user = None THEN UThrow
  ELSE IF users[user].familyId # None THEN UThrow
  ELSE IF family = None THEN UThrow
  ELSE UDone([users EXCEPT ![user] = [familyId |-> family, role |-> "member"]],
             <<family>>)

(* leaveFamily without the refusal of the owner. *)
leaveFamilyAnyRole(clerkId) ==
  LET user == userOf(clerkId) IN
  IF user = None \/ users[user].familyId = None THEN UThrow
  ELSE UDone([users EXCEPT ![user] = [familyId |-> None, role |-> NoRole]], <<>>)

leaveFamily(clerkId) ==
  LET user == userOf(clerkId) IN
  IF user = None \/ users[user].familyId = None THEN UThrow
  ELSE IF users[user].role = "owner" THEN UThrow
  ELSE UDone([users EXCEPT ![user] = [familyId |-> None, role |-> NoRole]], <<>>)

removeMember(clerkId, memberUserId) ==
  LET owner == userOf(clerkId) IN
  IF owner = None \/ users[owner].role # "owner" THEN UThrow
  ELSE IF memberUserId \notin DOMAIN users
          \/ users[memberUserId].familyId # users[owner].familyId
       THEN UThrow
  ELSE IF users[memberUserId].role = "owner" THEN UThrow
  ELSE UDone([users EXCEPT ![memberUserId] = [familyId |-> None, role |-> NoRole]],
             <<>>)

(***************************************************************************)
(* A call of a mutation: the transaction commits the handler's outcome.    *)
(* last and prev are history variables: the last call with its arguments   *)
(* and outcome, and the folders and files tables as they were before it.   *)
(* The specifications whose claims are about single states leave them      *)
(* unchanged.                                                              *)
(***************************************************************************)
Commit(R) ==
  /\ folders' = R.folders
  /\ files' = R.files
  /\ nextFolderId' = R.nextFolderId
  /\ nextFileId' = R.nextFileId
  /\ UNCHANGED users

(* The commit of a families.ts handler. *)
CommitUsers(R) ==
  /\ users' = R.users
  /\ UNCHANGED <<folders, files, nextFolderId, nextFileId>>

Record(op, args, R) ==
  /\ last' = [op |-> op, args |-> args, ok |-> R.ok, ret |-> R.ret]
  /\ prev' = [folders |-> folders, files |-> files]

(***************************************************************************)
(* The initial store: two families.  User 1 created family 1 (owner),      *)
(* users 2 and 3 joined it (members), user 4 created family 2 (owner); no  *)
(* folder and no file exists yet.                                          *)
(***************************************************************************)
Init ==
  /\ users = (1 :> [familyId |-> 1, role |-> "owner"])
          @@ (2 :> [familyId |-> 1, role |-> "member"])
          @@ (3 :> [familyId |-> 1, role |-> "member"])
          @@ (4 :> [familyId |-> 2, role |-> "owner"])
  /\ folders = <<>>
  /\ files = <<>>
  /\ nextFolderId = 1
  /\ nextFileId = 1
  /\ last = [op |-> "init", args |-> <<>>, ok |-> TRUE, ret |-> <<>>]
  /\ prev = [folders |-> <<>>, files |-> <<>>]

(* The key the upload service issues for the n-th upload. *)
uploadKey(n) == <<"key", n>>

OptFolder == FolderIds \cup {None}

(***************************************************************************)
(* Tree specification: folder and file structure mutations, called by any  *)
(* user with any ids.                                                      *)
(***************************************************************************)
TreeCallers == {1, 2, 4}

TreeCreateFolder ==
  \E c \in TreeCallers, p \in OptFolder :
    LET R == createFolder(c, "a", p, Undefined) IN
      /\ nextFolderId <= MaxFolders
      /\ Commit(R)
      /\ Record("createFolder", [clerkId |-> c, parentFolderId |-> p], R)

TreeMoveFolder ==
  \E c \in TreeCallers, f \in FolderIds, p \in OptFolder :
    LET R == moveFolder(c, f, p) IN
      /\ Commit(R)
      /\ Record("moveFolder",
                [clerkId |-> c, folderId |-> f, newParentFolderId |-> p], R)

TreeDeleteFolder ==
  \E c \in TreeCallers, f \in FolderIds, dc \in BOOLEAN :
    LET R == deleteFolder(c, f, dc) IN
      /\ Commit(R)
      /\ Record("deleteFolder",
                [clerkId |-> c, folderId |-> f, deleteContents |-> dc], R)

TreeCreateFile ==
  \E c \in TreeCallers, d \in OptFolder :
    LET R == createFile(c, "a", uploadKey(nextFileId), None, {}, d) IN
      /\ nextFileId <= MaxFiles
      /\ Commit(R)
      /\ Record("createFile", [clerkId |-> c, folderId |-> d], R)

TreeMoveFile ==
  \E c \in TreeCallers, f \in FileIds, d \in OptFolder :
    LET R == moveFile(c, f, d) IN
      /\ Commit(R)
      /\ Record("moveFile", [clerkId |-> c, fileId |-> f, folderId |-> d], R)

TreeBulkMoveFiles ==
  \E c \in TreeCallers, fs \in SUBSET FileIds, d \in OptFolder :
    LET R == bulkMoveFiles(c, fs, d) IN
      /\ Commit(R)
      /\ Record("bulkMoveFiles",
                [clerkId |-> c, fileIds |-> fs, folderId |-> d], R)

TreeNext ==
  \/ TreeCreateFolder
  \/ TreeMoveFolder
  \/ TreeDeleteFolder
  \/ TreeCreateFile
  \/ TreeMoveFile
  \/ TreeBulkMoveFiles

SpecTree == Init /\ [][TreeNext]_vars

(***************************************************************************)
(* Visibility specification: the owner of family 1 creates folders and     *)
(* files, assigns and moves them; the owner and the members change the     *)
(* sharing fields.  Its claims are about the read queries in single        *)
(* states, so the history variables stay as they are.                      *)
(***************************************************************************)
VisCallers == {1, 2, 3}
VisFolderIds == 1..MaxVisFolders
VisFileIds == 1..MaxVisFiles
OptVisFolder == VisFolderIds \cup {None}
FolderAssignArgs == {Undefined, Arr({}), Arr({2}), Arr({2, 3})}
FileAssignArgs == {None, 2}
SharedWithArgs == {{}, {3}}

VisCreateFolder ==
  \E c \in VisCallers, p \in OptVisFolder, a \in FolderAssignArgs :
    /\ nextFolderId <= MaxVisFolders
    /\ Commit(createFolder(c, "a", p, a))
    /\ UNCHANGED <<last, prev>>

VisCreateFile ==
  \E c \in VisCallers, d \in OptVisFolder, a \in FileAssignArgs :
    /\ nextFileId <= MaxVisFiles
    /\ Commit(createFile(c, "a", uploadKey(nextFileId), a, {}, d))
    /\ UNCHANGED <<last, prev>>

VisMoveFile ==
  \E c \in VisCallers, f \in VisFileIds, d \in OptVisFolder :
    /\ Commit(moveFile(c, f, d))
    /\ UNCHANGED <<last, prev>>

VisUpdateFolderAssignment ==
  \E c \in VisCallers, g \in VisFolderIds, a \in FolderAssignArgs :
    /\ Commit(updateFolderAssignment(c, g, a))
    /\ UNCHANGED <<last, prev>>

VisUpdateFolderSharing ==
  \E c \in VisCallers, g \in VisFolderIds, b \in BOOLEAN, w \in SharedWithArgs :
    /\ Commit(updateFolderSharing(c, g, b, w))
    /\ UNCHANGED <<last, prev>>

VisUpdateFileAssignment ==
  \E c \in VisCallers, f \in VisFileIds, a \in FileAssignArgs :
    /\ Commit(updateFileAssignment(c, f, a))
    /\ UNCHANGED <<last, prev>>

VisUpdateFileSharing ==
  \E c \in VisCallers, f \in VisFileIds, b \in BOOLEAN, w \in SharedWithArgs :
    /\ Commit(updateFileSharing(c, f, b, w))
    /\ UNCHANGED <<last, prev>>

VisToggleShareFile ==
  \E c \in VisCallers, f \in VisFileIds :
    /\ Commit(toggleShareFile(c, f))
    /\ UNCHANGED <<last, prev>>

VisNext ==
  \/ VisCreateFolder
  \/ VisCreateFile
  \/ VisMoveFile
  \/ VisUpdateFolderAssignment
  \/ VisUpdateFolderSharing
  \/ VisUpdateFileAssignment
  \/ VisUpdateFileSharing
  \/ VisToggleShareFile

SpecVis == Init /\ [][VisNext]_vars

(***************************************************************************)
(* Operations specification: every single-item mutation of folders.ts and  *)
(* files.ts, called by the owner of family 1, a member of family 1, the    *)
(* owner of family 2 (who creates nothing here) and a clerk id without a   *)
(* user, with existing and missing ids.  Its claims are about the outcome  *)
(* of a call in a reachable store, so the history variables stay as they   *)
(* are.                                                                    *)
(***************************************************************************)
NoSuchClerk == 5
OpsCallers == {1, 2, 4, NoSuchClerk}
OpsCreators == {1, 2, NoSuchClerk}
OpsFolderIds == 1..MaxOpsFolders
OpsFileIds == 1..MaxOpsFiles
OptOpsFolder == OpsFolderIds \cup {None}
Names == {"a", "b"}
TagArgs == {{}, {"a"}}
OpsFolderAssignArgs == {Undefined, Arr({2})}
OpsSharedWithArgs == {{}, {3}}

OpsCreateFolder ==
  \E c \in OpsCreators, p \in OptOpsFolder, a \in OpsFolderAssignArgs :
    /\ nextFolderId <= MaxOpsFolders
    /\ Commit(createFolder(c, "a", p, a))
    /\ UNCHANGED <<last, prev>>

OpsRenameFolder ==
  \E c \in OpsCallers, g \in OpsFolderIds, n \in Names :
    /\ Commit(renameFolder(c, g, n))
    /\ UNCHANGED <<last, prev>>

OpsDeleteFolder ==
  \E c \in OpsCallers, g \in OpsFolderIds, dc \in BOOLEAN :
    /\ Commit(deleteFolder(c, g, dc))
    /\ UNCHANGED <<last, prev>>

OpsUpdateFolderAssignment ==
  \E c \in OpsCallers, g \in OpsFolderIds, a \in OpsFolderAssignArgs :
    /\ Commit(updateFolderAssignment(c, g, a))
    /\ UNCHANGED <<last, prev>>

OpsUpdateFolderSharing ==
  \E c \in OpsCallers, g \in OpsFolderIds, b \in BOOLEAN, w \in OpsSharedWithArgs :
    /\ Commit(updateFolderSharing(c, g, b, w))
    /\ UNCHANGED <<last, prev>>

OpsMoveFolder ==
  \E c \in OpsCallers, g \in OpsFolderIds, p \in OptOpsFolder :
    /\ Commit(moveFolder(c, g, p))
    /\ UNCHANGED <<last, prev>>

OpsCreateFile ==
  \E c \in OpsCreators, a \in FileAssignArgs, d \in OptOpsFolder :
    /\ nextFileId <= MaxOpsFiles
    /\ Commit(createFile(c, "a", uploadKey(nextFileId), a, {}, d))
    /\ UNCHANGED <<last, prev>>

OpsRenameFile ==
  \E c \in OpsCallers, f \in OpsFileIds, n \in Names :
    /\ Commit(renameFile(c, f, n))
    /\ UNCHANGED <<last, prev>>

OpsDeleteFile ==
  \E c \in OpsCallers, f \in OpsFileIds :
    /\ Commit(deleteFile(c, f))
    /\ UNCHANGED <<last, prev>>

OpsUpdateFileTags ==
  \E c \in OpsCallers, f \in OpsFileIds, t \in TagArgs :
    /\ Commit(updateFileTags(c, f, t))
    /\ UNCHANGED <<last, prev>>

OpsUpdateFileAssignment ==
  \E c \in OpsCallers, f \in OpsFileIds, a \in FileAssignArgs :
    /\ Commit(updateFileAssignment(c, f, a))
    /\ UNCHANGED <<last, prev>>

OpsUpdateFileSharing ==
  \E c \in OpsCallers, f \in OpsFileIds, b \in BOOLEAN, w \in OpsSharedWithArgs :
    /\ Commit(updateFileSharing(c, f, b, w))
    /\ UNCHANGED <<last, prev>>

OpsToggleShareFile ==
  \E c \in OpsCallers, f \in OpsFileIds :
    /\ Commit(toggleShareFile(c, f))
    /\ UNCHANGED <<last, prev>>

OpsMoveFile ==
  \E c \in OpsCallers, f \in OpsFileIds, d \in OptOpsFolder :
    /\ Commit(moveFile(c, f, d))
    /\ UNCHANGED <<last, prev>>

OpsNext ==
  \/ OpsCreateFolder
  \/ OpsRenameFolder
  \/ OpsDeleteFolder
  \/ OpsUpdateFolderAssignment
  \/ OpsUpdateFolderSharing
  \/ OpsMoveFolder
  \/ OpsCreateFile
  \/ OpsRenameFile
  \/ OpsDeleteFile
  \/ OpsUpdateFileTags
  \/ OpsUpdateFileAssignment
  \/ OpsUpdateFileSharing
  \/ OpsToggleShareFile
  \/ OpsMoveFile

SpecOps == Init /\ [][OpsNext]_vars

(***************************************************************************)
(* Family specification: users leave, are removed from, join and create    *)
(* families, while owners create and assign folders and files and creators *)
(* and assignees change the sharing fields.                                *)
(***************************************************************************)
FamCallers == {1, 2, 3, 4}
FamFolderIds == 1..MaxFamFolders
FamFileIds == 1..MaxFamFiles
InviteCodeArgs == 1..MaxFamilies
FamFolderAssignArgs == {Undefined, Arr({2}), Arr({2, 3})}
FamFileAssignArgs == {None, 2, 4}

FamCreateFamily ==
  \E c \in FamCallers :
    /\ nextFamilyId <= MaxFamilies
    /\ CommitUsers(createFamily(c))
    /\ UNCHANGED <<last, prev>>

FamJoinFamily ==
  \E c \in FamCallers, code \in InviteCodeArgs :
    /\ CommitUsers(joinFamily(c, code))
    /\ UNCHANGED <<last, prev>>

FamLeaveFamily ==
  \E c \in FamCallers :
    /\ CommitUsers(leaveFamily(c))
    /\ UNCHANGED <<last, prev>>

FamRemoveMember ==
  \E c \in FamCallers, m \in DOMAIN users :
    /\ CommitUsers(removeMember(c, m))
    /\ UNCHANGED <<last, prev>>

FamCreateFolder ==
  \E c \in FamCallers, a \in FamFolderAssignArgs :
    /\ nextFolderId <= MaxFamFolders
    /\ Commit(createFolder(c, "a", None, a))
    /\ UNCHANGED <<last, prev>>

FamCreateFile ==
  \E c \in FamCallers, a \in FamFileAssignArgs :
    /\ nextFileId <= MaxFamFiles
    /\ Commit(createFile(c, "a", uploadKey(nextFileId), a, {}, None))
    /\ UNCHANGED <<last, prev>>

FamUpdateFolderAssignment ==
  \E c \in FamCallers, g \in FamFolderIds, a \in FamFolderAssignArgs :
    /\ Commit(updateFolderAssignment(c, g, a))
    /\ UNCHANGED <<last, prev>>

FamUpdateFileAssignment ==
  \E c \in FamCallers, f \in FamFileIds, a \in FamFileAssignArgs :
    /\ Commit(updateFileAssignment(c, f, a))
    /\ UNCHANGED <<last, prev>>

FamBulkAssignFiles ==
  \E c \in FamCallers, fs \in SUBSET FamFileIds, a \in FamFileAssignArgs :
    /\ Commit(bulkAssignFiles(c, fs, a))
    /\ UNCHANGED <<last, prev>>

FamUpdateFolderSharing ==
  \E c \in FamCallers, g \in FamFolderIds, b \in BOOLEAN :
    /\ Commit(updateFolderSharing(c, g, b, {}))
    /\ UNCHANGED <<last, prev>>

FamUpdateFileSharing ==
  \E c \in FamCallers, f \in FamFileIds, b \in BOOLEAN :
    /\ Commit(updateFileSharing(c, f, b, {}))
    /\ UNCHANGED <<last, prev>>

FamToggleShareFile ==
  \E c \in FamCallers, f \in FamFileIds :
    /\ Commit(toggleShareFile(c, f))
    /\ UNCHANGED <<last, prev>>

FamNext ==
  \/ FamCreateFamily
  \/ FamJoinFamily
  \/ FamLeaveFamily
  \/ FamRemoveMember
  \/ FamCreateFolder
  \/ FamCreateFile
  \/ FamUpdateFolderAssignment
  \/ FamUpdateFileAssignment
  \/ FamBulkAssignFiles
  \/ FamUpdateFolderSharing
  \/ FamUpdateFileSharing
  \/ FamToggleShareFile

SpecFam == Init /\ [][FamNext]_vars

(***************************************************************************)
(* Bulk specification: the owners of the two families and a member create, *)
(* move, assign and delete files one at a time and in bulk.  The listed    *)
(* ids go one beyond the files that can exist, so a list can always hold   *)
(* the id of a missing file.                                               *)
(***************************************************************************)
BulkCallers == {1, 2, 4}

(* the fileIds arrays of at most three of the ids F, repetitions included *)
IdLists(F) ==
  {<<>>} \cup {<<x>> : x \in F} \cup {<<x, y>> : x, y \in F}
    \cup {<<x, y, z>> : x, y, z \in F}

BulkFolderIds == 1..MaxBulkFolders
BulkFileIds == 1..(MaxBulkFiles + 1)
OptBulkFolder == BulkFolderIds \cup {None}

BulkCreateFolder ==
  \E c \in BulkCallers :
    /\ nextFolderId <= MaxBulkFolders
    /\ Commit(createFolder(c, "a", None, Undefined))
    /\ UNCHANGED <<last, prev>>

BulkCreateFile ==
  \E c \in BulkCallers, d \in OptBulkFolder :
    /\ nextFileId <= MaxBulkFiles
    /\ Commit(createFile(c, "a", uploadKey(nextFileId), None, {}, d))
    /\ UNCHANGED <<last, prev>>

BulkMoveFile ==
  \E c \in BulkCallers, f \in BulkFileIds, d \in OptBulkFolder :
    /\ Commit(moveFile(c, f, d))
    /\ UNCHANGED <<last, prev>>

BulkUpdateFileAssignment ==
  \E c \in BulkCallers, f \in BulkFileIds, a \in FileAssignArgs :
    /\ Commit(updateFileAssignment(c, f, a))
    /\ UNCHANGED <<last, prev>>

BulkDeleteFile ==
  \E c \in BulkCallers, f \in BulkFileIds :
    /\ Commit(deleteFile(c, f))
    /\ UNCHANGED <<last, prev>>

BulkDeleteFiles ==
  \E c \in BulkCallers, fs \in IdLists(BulkFileIds) :
    /\ Commit(bulkDeleteFiles(c, fs))
    /\ UNCHANGED <<last, prev>>

BulkMoveFiles ==
  \E c \in BulkCallers, fs \in SUBSET BulkFileIds, d \in OptBulkFolder :
    /\ Commit(bulkMoveFiles(c, fs, d))
    /\ UNCHANGED <<last, prev>>

BulkAssignFiles ==
  \E c \in BulkCallers, fs \in SUBSET BulkFileIds, a \in FileAssignArgs :
    /\ Commit(bulkAssignFiles(c, fs, a))
    /\ UNCHANGED <<last, prev>>

BulkNext ==
  \/ BulkCreateFolder
  \/ BulkCreateFile
  \/ BulkMoveFile
  \/ BulkUpdateFileAssignment
  \/ BulkDeleteFile
  \/ BulkDeleteFiles
  \/ BulkMoveFiles
  \/ BulkAssignFiles

SpecBulk == Init /\ [][BulkNext]_vars

(***************************************************************************)
(* Move specification: files are created with a name, tags, an assignee    *)
(* and sharing fields, and moved between root and the folders.  A moveFile *)
(* call is recorded with the store before it; MoveFileBack is the moveFile *)
(* call that directly follows a successful one, by the same caller, with   *)
(* the folder the file was in before as its target, and keeps the store    *)
(* recorded before the first of the two calls.                             *)
(***************************************************************************)
MoveCallers == {1, 2, 4}
MoveFolderIds == 1..MaxMoveFolders
MoveFileIds == 1..MaxMoveFiles
OptMoveFolder == MoveFolderIds \cup {None}

MoveCreateFolder ==
  \E c \in MoveCallers :
    LET R == createFolder(c, "a", None, Undefined) IN
      /\ nextFolderId <= MaxMoveFolders
      /\ Commit(R)
      /\ Record("createFolder", [clerkId |-> c], R)

MoveCreateFile ==
  \E c \in MoveCallers, a \in FileAssignArgs, d \in OptMoveFolder :
    LET R == createFile(c, "b", uploadKey(nextFileId), a, {"a"}, d) IN
      /\ nextFileId <= MaxMoveFiles
      /\ Commit(R)
      /\ Record("createFile", [clerkId |-> c, folderId |-> d], R)

MoveUpdateFileSharing ==
  \E c \in MoveCallers, f \in MoveFileIds, b \in BOOLEAN, w \in SharedWithArgs :
    LET R == updateFileSharing(c, f, b, w) IN
      /\ Commit(R)
      /\ Record("updateFileSharing", [clerkId |-> c, fileId |-> f], R)

MoveFileAway ==
  \E c \in MoveCallers, f \in MoveFileIds, d \in OptMoveFolder :
    LET R == moveFile(c, f, d) IN
      /\ Commit(R)
      /\ Record("moveFile", [clerkId |-> c, fileId |-> f, folderId |-> d], R)

MoveFileBack ==
  /\ last.op = "moveFile" /\ last.ok
  /\ LET c == last.args.clerkId
         f == last.args.fileId
         d == prev.files[f].folderId
         R == moveFile(c, f, d)
     IN /\ Commit(R)
        /\ last' = [op |-> "moveFileBack",
                    args |-> [clerkId |-> c, fileId |-> f, folderId |-> d,
                              via |-> last.args.folderId],
                    ok |-> R.ok, ret |-> R.ret]
        /\ UNCHANGED prev

MoveNext ==
  \/ MoveCreateFolder
  \/ MoveCreateFile
  \/ MoveUpdateFileSharing
  \/ MoveFileAway
  \/ MoveFileBack

SpecMove == Init /\ [][MoveNext]_vars

(***************************************************************************)
(* Race specification: concurrent moveFolder calls.  RaceBegin issues two  *)
(* calls and records them with the store at that moment; RaceCommit runs   *)
(* one of the issued calls as one atomic transaction on the store as it is *)
(* then, in either order.  last.args holds the two calls, the order in     *)
(* which they committed and their outcomes.                                *)
(***************************************************************************)
RaceCallers == {1, 2}
RaceFolderIds == 1..MaxRaceFolders
OptRaceFolder == RaceFolderIds \cup {None}
MoveCalls == [clerkId : RaceCallers, folderId : RaceFolderIds,
              newParentFolderId : OptRaceFolder]

racePending == last.op = "race" /\ Len(last.args.order) < 2

RaceCreateFolder ==
  \E c \in RaceCallers, p \in OptRaceFolder :
    LET R == createFolder(c, "a", p, Undefined) IN
      /\ ~racePending
      /\ nextFolderId <= MaxRaceFolders
      /\ Commit(R)
      /\ Record("createFolder", [clerkId |-> c, parentFolderId |-> p], R)

RaceBegin ==
  \E a \in MoveCalls, b \in MoveCalls :
    /\ ~racePending
    /\ last' = [op |-> "race",
                args |-> [calls |-> <<a, b>>, order |-> <<>>, oks |-> <<>>],
                ok |-> TRUE, ret |-> <<>>]
    /\ prev' = [folders |-> folders, files |-> files]
    /\ UNCHANGED <<users, folders, files, nextFolderId, nextFileId>>

RaceCommit ==
  \E i \in {1, 2} :
    /\ racePending
    /\ i \notin Range(last.args.order)
    /\ LET call == last.args.calls[i]
           R == moveFolder(call.clerkId, call.folderId, call.newParentFolderId)
       IN /\ Commit(R)
          /\ last' = [last EXCEPT !.args.order = Append(@, i),
                                  !.args.oks = Append(@, R.ok)]
    /\ UNCHANGED prev

RaceNext ==
  \/ RaceCreateFolder
  \/ RaceBegin
  \/ RaceCommit

SpecRace == Init /\ [][RaceNext]_vars

(***************************************************************************)
(* Isolation specification: two families with items of their own.  The     *)
(* owners 1 and 4 and the member 2 create, move and share items,            *)
(* owner 1 removes member 2, and user 2 joins a family again.              *)
(***************************************************************************)
IsoCallers == {1, 2, 4}
IsoFolderIds == 1..MaxIsoFolders
IsoFileIds == 1..MaxIsoFiles
OptIsoFolder == IsoFolderIds \cup {None}
IsoFolderAssignArgs == {Undefined, Arr({2})}
IsoFileAssignArgs == {None, 2}

IsoCreateFolder ==
  \E c \in IsoCallers, p \in OptIsoFolder, a \in IsoFolderAssignArgs :
    /\ nextFolderId <= MaxIsoFolders
    /\ Commit(createFolder(c, "a", p, a))
    /\ UNCHANGED <<last, prev>>

IsoCreateFile ==
  \E c \in IsoCallers, d \in OptIsoFolder, a \in IsoFileAssignArgs :
    /\ nextFileId <= MaxIsoFiles
    /\ Commit(createFile(c, "a", uploadKey(nextFileId), a, {}, d))
    /\ UNCHANGED <<last, prev>>

IsoMoveFile ==
  \E c \in IsoCallers, f \in IsoFileIds, d \in OptIsoFolder :
    /\ Commit(moveFile(c, f, d))
    /\ UNCHANGED <<last, prev>>

IsoUpdateFolderSharing ==
  \E c \in IsoCallers, g \in IsoFolderIds, b \in BOOLEAN :
    /\ Commit(updateFolderSharing(c, g, b, {}))
    /\ UNCHANGED <<last, prev>>

IsoRemoveMember ==
  \E c \in IsoCallers, m \in IsoCallers :
    /\ CommitUsers(removeMember(c, m))
    /\ UNCHANGED <<last, prev>>

IsoJoinFamily ==
  \E c \in IsoCallers, code \in familyIds :
    /\ CommitUsers(joinFamily(c, code))
    /\ UNCHANGED <<last, prev>>

IsoNext ==
  \/ IsoCreateFolder
  \/ IsoCreateFile
  \/ IsoMoveFile
  \/ IsoUpdateFolderSharing
  \/ IsoRemoveMember
  \/ IsoJoinFamily

SpecIso == Init /\ [][IsoNext]_vars

(***************************************************************************)
(* The folder tree of a folders table fo, for stating the claims.  The     *)
(* walks are bounded by the number of folders, so they are defined on a    *)
(* table with a cycle too.                                                 *)
(***************************************************************************)
parentIn(fo, g) == IF g \in DOMAIN fo THEN fo[g].parentFolderId ELSE None

RECURSIVE chainFrom(_, _, _)
chainFrom(fo, cur, n) ==
  IF n = 0 \/ cur = None THEN {}
  ELSE {cur} \cup chainFrom(fo, parentIn(fo, cur), n - 1)

(* the ids met by following parentFolderId from g one or more times *)
ancestorsIn(fo, g) == chainFrom(fo, parentIn(fo, g), Cardinality(DOMAIN fo) + 1)

descendantsIn(fo, F) == {g \in DOMAIN fo : F \in ancestorsIn(fo, g)}

depthIn(fo, g) == Cardinality(ancestorsIn(fo, g))

(* C1: the folder parent relation is acyclic in every reachable state: no  *)
(* folder is met again by following parentFolderId from it.                *)
C1_Acyclic == \A g \in DOMAIN folders : g \notin ancestorsIn(folders, g)

(* C1 witness: a moveFolder under another folder has succeeded and left a  *)
(* chain of three nested folders.                                          *)
C1_Witness ==
  /\ last.op = "moveFolder" /\ last.ok
  /\ last.args.newParentFolderId # None
  /\ \E g \in DOMAIN folders :
       /\ depthIn(folders, g) = 2
       /\ ancestorsIn(folders, g) \subseteq DOMAIN folders

(* C2: a moveFolder whose new parent is the folder itself or one of its    *)
(* descendants fails, and every folder keeps its parentFolderId.           *)
C2_MoveIntoDescendantFails ==
  (/\ last.op = "moveFolder"
   /\ last.args.newParentFolderId \in
        {last.args.folderId} \cup descendantsIn(prev.folders, last.args.folderId))
  => /\ ~last.ok
     /\ DOMAIN folders = DOMAIN prev.folders
     /\ \A g \in DOMAIN folders :
          folders[g].parentFolderId = prev.folders[g].parentFolderId

(* C2 witness: the creator of a folder tried to move it under its          *)
(* grandchild and the call failed.                                         *)
C2_Witness ==
  /\ last.op = "moveFolder" /\ ~last.ok
  /\ last.args.folderId \in DOMAIN folders
  /\ folders[last.args.folderId].createdBy = last.args.clerkId
  /\ last.args.newParentFolderId \in descendantsIn(folders, last.args.folderId)
  /\ folders[last.args.newParentFolderId].parentFolderId # last.args.folderId

(* C3: after a successful deleteFolder(F, deleteContents = true) no folder *)
(* that was a descendant of F and no file that was in F or in a descendant *)
(* of F is left in the store.                                              *)
C3_CascadeRemovesAll ==
  (last.op = "deleteFolder" /\ last.ok /\ last.args.deleteContents)
  => LET F == last.args.folderId
         below == descendantsIn(prev.folders, F)
     IN /\ \A g \in below : g \notin DOMAIN folders
        /\ \A f \in DOMAIN prev.files :
             prev.files[f].folderId \in ({F} \cup below) => f \notin DOMAIN files

(* C4: every folder with a parentFolderId refers to an existing folder of  *)
(* the same family.                                                        *)
C4_NoOrphanFolder ==
  \A g \in DOMAIN folders :
    folders[g].parentFolderId # None
    => /\ folders[g].parentFolderId \in DOMAIN folders
       /\ folders[folders[g].parentFolderId].familyId = folders[g].familyId

(* C5: every file with a folderId refers to an existing folder of the      *)
(* file's family.                                                          *)
C5_FileFolderResolves ==
  \A f \in DOMAIN files :
    files[f].folderId # None
    => /\ files[f].folderId \in DOMAIN folders
       /\ folders[files[f].folderId].familyId = files[f].familyId

(* C6: after a successful deleteFolder(F, deleteContents = false), F is    *)
(* gone, every file and folder that was directly in F has F's former       *)
(* parent as its folder / parent, and nothing but F was removed.           *)
C6_PromoteChildren ==
  (last.op = "deleteFolder" /\ last.ok /\ ~last.args.deleteContents)
  => LET F == last.args.folderId
         P == prev.folders[F].parentFolderId
     IN /\ F \notin DOMAIN folders
        /\ DOMAIN folders = DOMAIN prev.folders \ {F}
        /\ DOMAIN files = DOMAIN prev.files
        /\ \A f \in DOMAIN prev.files :
             prev.files[f].folderId = F => files[f].folderId = P
        /\ \A g \in DOMAIN prev.folders :
             prev.folders[g].parentFolderId = F => folders[g].parentFolderId = P

(* C6 witness: the deleted folder had a parent, a file and a subfolder.    *)
C6_Witness ==
  /\ last.op = "deleteFolder" /\ last.ok /\ ~last.args.deleteContents
  /\ LET F == last.args.folderId IN
       /\ prev.folders[F].parentFolderId \in DOMAIN folders
       /\ \E f \in DOMAIN prev.files : prev.files[f].folderId = F
       /\ \E g \in DOMAIN prev.folders : prev.folders[g].parentFolderId = F

(* C7: the fileKeysToDelete of a successful deleteFolder(F, true) holds    *)
(* the key of each file the call removed exactly once, and nothing else.   *)
C7_KeysOfRemovedFiles ==
  (last.op = "deleteFolder" /\ last.ok /\ last.args.deleteContents)
  => LET removed == DOMAIN prev.files \ DOMAIN files
     IN /\ \A f \in removed :
             Cardinality({i \in DOMAIN last.ret :
                            last.ret[i] = prev.files[f].fileKey}) = 1
        /\ \A f \in DOMAIN files : files[f].fileKey \notin Range(last.ret)
        /\ Len(last.ret) = Cardinality(removed)

(* C7 witness: the call removed a file of a subfolder, whose key it        *)
(* returned.                                                               *)
C7_Witness ==
  /\ last.op = "deleteFolder" /\ last.ok /\ last.args.deleteContents
  /\ LET F == last.args.folderId
         removed == DOMAIN prev.files \ DOMAIN files
     IN \E f \in removed :
          /\ prev.files[f].folderId # F
          /\ prev.folders[prev.files[f].folderId].parentFolderId = F
          /\ last.ret = <<prev.files[f].fileKey>>

(***************************************************************************)
(* Visibility claims.                                                      *)
(***************************************************************************)
familyUsers(familyId) == {u \in DOMAIN users : users[u].familyId = familyId}
Scopes == OptFolder \X BOOLEAN
SearchTerms == {"", "a"}

(* the file f carries no sharing flag of its own and lies directly in an   *)
(* existing folder that is shared with the family                          *)
inFamilySharedFolder(f) ==
  /\ files[f].folderId \in DOMAIN folders
  /\ folders[files[f].folderId].sharedWithFamily
  /\ ~files[f].sharedWithFamily
  /\ files[f].sharedWith = {}

seenInShared(m, f) ==
  /\ f \in getSharedFiles(m, None, FALSE)
  /\ \A r \in BOOLEAN : f \in getSharedFiles(m, files[f].folderId, r)

filesReturnedTo(m) ==
  UNION {getMyFiles(m, sc[1], sc[2]) : sc \in Scopes}
    \cup UNION {getSharedFiles(m, sc[1], sc[2]) : sc \in Scopes}
    \cup getAllFamilyFiles(m)
    \cup UNION {searchFiles(m, t) : t \in SearchTerms}
    \cup UNION {getFolderContents(m, g).files : g \in FolderIds}

(* C9: every file a read query returns to a member is unassigned, assigned *)
(* to the member, shared with the family, shared with the member, or       *)
(* directly in a folder shared with the member.                            *)
C9_MemberSeesOnlyAllowed ==
  \A m \in DOMAIN users :
    users[m].role = "member"
    => \A f \in filesReturnedTo(m) :
         \/ files[f].assignedTo = None
         \/ files[f].assignedTo = m
         \/ files[f].sharedWithFamily
         \/ m \in files[f].sharedWith
         \/ /\ files[f].folderId \in DOMAIN folders
            /\ \/ folders[files[f].folderId].sharedWithFamily
               \/ m \in folders[files[f].folderId].sharedWith

inScope(f, sc) ==
  IF sc[1] # None THEN files[f].folderId = sc[1]
  ELSE IF sc[2] THEN files[f].folderId = None
  ELSE TRUE

(* C10: getMyFiles / getMyFolders of an owner hold every file / folder of  *)
(* the requested scope the owner uploaded / created, and getSharedFiles /  *)
(* getSharedFolders of the owner hold none of them.                        *)
C10_OwnerPartition ==
  \A o \in DOMAIN users :
    users[o].role = "owner"
    => /\ \A sc \in Scopes : \A f \in DOMAIN files :
            files[f].uploadedBy = o
            => /\ inScope(f, sc) => f \in getMyFiles(o, sc[1], sc[2])
               /\ f \notin getSharedFiles(o, sc[1], sc[2])
       /\ \A p \in OptFolder : \A g \in DOMAIN folders :
            folders[g].createdBy = o
            => /\ folders[g].parentFolderId = p => g \in getMyFolders(o, p)
               /\ g \notin getSharedFolders(o, p)

(* C10 witness: the owner's file is assigned to a member and shared with   *)
(* the family, in the owner's assigned and family-shared folder, and both  *)
(* are in the owner's getMyFiles / getMyFolders.                           *)
C10_Witness ==
  \E f \in DOMAIN files : \E g \in DOMAIN folders :
    /\ files[f].uploadedBy = 1 /\ folders[g].createdBy = 1
    /\ files[f].folderId = g
    /\ files[f].assignedTo = 2 /\ files[f].sharedWithFamily
    /\ IsDefined(folders[g].assignedTo) /\ folders[g].sharedWithFamily
    /\ f \in getMyFiles(1, g, FALSE)
    /\ g \in getMyFolders(1, None)

(* the scopes of a file query that match the location of the file f: its   *)
(* folder (with either rootOnly), or root-only when it has none            *)
locationScopes(f) ==
  IF files[f].folderId # None
  THEN {<<files[f].folderId, r>> : r \in BOOLEAN}
  ELSE {<<None, TRUE>>}

(* C11: a file with no assignee is in no getSharedFiles result of a member *)
(* of its family, and is in the member's getMyFiles result for the global  *)
(* scope and for the scope of the file's location.                         *)
C11_UnassignedInMineNotShared ==
  \A f \in DOMAIN files : \A m \in familyUsers(files[f].familyId) :
    (files[f].assignedTo = None /\ users[m].role = "member")
    => /\ \A sc \in Scopes : f \notin getSharedFiles(m, sc[1], sc[2])
       /\ f \in getMyFiles(m, None, FALSE)
       /\ \A sc \in locationScopes(f) : f \in getMyFiles(m, sc[1], sc[2])

(* C11 witness: an unassigned file that is shared with the family and lies *)
(* in an assigned, family-shared folder is in member 2's getMyFiles for    *)
(* that folder.                                                            *)
C11_Witness ==
  \E f \in DOMAIN files :
    /\ files[f].assignedTo = None
    /\ files[f].sharedWithFamily
    /\ files[f].folderId \in DOMAIN folders
    /\ folders[files[f].folderId].sharedWithFamily
    /\ IsDefined(folders[files[f].folderId].assignedTo)
    /\ users[2].familyId = files[f].familyId /\ users[2].role = "member"
    /\ f \in getMyFiles(2, files[f].folderId, FALSE)

(* C12: for every user and every scope, getMyFiles and getSharedFiles have *)
(* no file in common, and getMyFolders and getSharedFolders have no folder *)
(* in common.                                                              *)
C12_MineSharedDisjoint ==
  \A u \in DOMAIN users :
    /\ \A sc \in Scopes :
         getMyFiles(u, sc[1], sc[2]) \cap getSharedFiles(u, sc[1], sc[2]) = {}
    /\ \A p \in OptFolder :
         getMyFolders(u, p) \cap getSharedFolders(u, p) = {}

(* C12 witness: a file and a folder, both shared, are in member 2's        *)
(* getMine results and in member 3's getShared results.                    *)
C12_Witness ==
  \E f \in DOMAIN files : \E g \in DOMAIN folders :
    /\ f \in getMyFiles(2, None, FALSE) /\ f \in getSharedFiles(3, None, FALSE)
    /\ g \in getMyFolders(2, None) /\ g \in getSharedFolders(3, None)

(* C13: a file or folder with sharedWithFamily = true is, for every user   *)
(* of its family, in the user's getMine result or getShared result for the *)
(* scope of the item's own parent, whatever its assignment.                *)
C13_FamilySharedVisible ==
  /\ \A f \in DOMAIN files : \A u \in familyUsers(files[f].familyId) :
       files[f].sharedWithFamily
       => \A sc \in locationScopes(f) :
            f \in getMyFiles(u, sc[1], sc[2]) \cup getSharedFiles(u, sc[1], sc[2])
  /\ \A g \in DOMAIN folders : \A u \in familyUsers(folders[g].familyId) :
       folders[g].sharedWithFamily
       => g \in getMyFolders(u, folders[g].parentFolderId)
                  \cup getSharedFolders(u, folders[g].parentFolderId)

(* C13 witness: a file and its folder are assigned to member 2 and shared  *)
(* with the family; member 3 has both in the getShared results.            *)
C13_Witness ==
  \E f \in DOMAIN files : \E g \in DOMAIN folders :
    /\ files[f].folderId = g
    /\ files[f].sharedWithFamily /\ files[f].assignedTo = 2
    /\ folders[g].sharedWithFamily /\ Includes(folders[g].assignedTo, 2)
    /\ 3 \notin files[f].sharedWith /\ 3 \notin folders[g].sharedWith
    /\ f \in getSharedFiles(3, g, FALSE)
    /\ g \in getSharedFolders(3, folders[g].parentFolderId)

(***************************************************************************)
(* Claims about the outcome of a call.  The store a call leaves: the       *)
(* tables of the handler's outcome, with ok = FALSE for a thrown error.    *)
(***************************************************************************)
Store(R) ==
  [ok |-> R.ok, users |-> users, folders |-> R.folders, files |-> R.files]

UStore(R) ==
  [ok |-> R.ok, users |-> R.users, folders |-> folders, files |-> files]

AssigneeArgs == DOMAIN users \cup {None}
AllFolderAssignArgs == FolderAssignArgs \cup {Arr({4})}
AllClerks == DOMAIN users \cup {NoSuchClerk}

(* P holds of the store left by every call of a folders.ts or files.ts     *)
(* mutation by the caller c, with folder ids of G and file ids of F.       *)
EveryItemCall(c, G, F, P(_)) ==
  /\ \A n \in Names, p \in G \cup {None}, a \in AllFolderAssignArgs :
       P(Store(createFolder(c, n, p, a)))
  /\ \A g \in G, n \in Names : P(Store(renameFolder(c, g, n)))
  /\ \A g \in G, dc \in BOOLEAN : P(Store(deleteFolder(c, g, dc)))
  /\ \A g \in G, a \in AllFolderAssignArgs :
       P(Store(updateFolderAssignment(c, g, a)))
  /\ \A g \in G, b \in BOOLEAN, w \in OpsSharedWithArgs :
       P(Store(updateFolderSharing(c, g, b, w)))
  /\ \A g \in G, p \in G \cup {None} : P(Store(moveFolder(c, g, p)))
  /\ \A n \in Names, a \in AssigneeArgs, t \in TagArgs, d \in G \cup {None} :
       P(Store(createFile(c, n, uploadKey(nextFileId), a, t, d)))
  /\ \A f \in F, n \in Names : P(Store(renameFile(c, f, n)))
  /\ \A f \in F : P(Store(deleteFile(c, f)))
  /\ \A f \in F, t \in TagArgs : P(Store(updateFileTags(c, f, t)))
  /\ \A f \in F, a \in AssigneeArgs : P(Store(updateFileAssignment(c, f, a)))
  /\ \A f \in F, b \in BOOLEAN, w \in OpsSharedWithArgs :
       P(Store(updateFileSharing(c, f, b, w)))
  /\ \A f \in F : P(Store(toggleShareFile(c, f)))
  /\ \A f \in F, d \in G \cup {None} : P(Store(moveFile(c, f, d)))
  /\ \A fs \in IdLists(F) : P(Store(bulkDeleteFiles(c, fs)))
  /\ \A fs \in SUBSET F, d \in G \cup {None} : P(Store(bulkMoveFiles(c, fs, d)))
  /\ \A fs \in SUBSET F, a \in AssigneeArgs : P(Store(bulkAssignFiles(c, fs, a)))

(* the same for the mutations of families.ts *)
EveryFamilyCall(c, P(_)) ==
  /\ P(UStore(createFamily(c)))
  /\ \A code \in familyIds \cup {None} : P(UStore(joinFamily(c, code)))
  /\ P(UStore(leaveFamily(c)))
  /\ \A m \in DOMAIN users : P(UStore(removeMember(c, m)))

(* S has the folders and files of the current store, each with every field *)
(* but sharedWithFamily and sharedWith as it is                            *)
sameButSharing(S) ==
  /\ DOMAIN S.folders = DOMAIN folders
  /\ DOMAIN S.files = DOMAIN files
  /\ \A g \in DOMAIN folders :
       [S.folders[g] EXCEPT !.sharedWithFamily = folders[g].sharedWithFamily,
                            !.sharedWith = folders[g].sharedWith] = folders[g]
  /\ \A f \in DOMAIN files :
       [S.files[f] EXCEPT !.sharedWithFamily = files[f].sharedWithFamily,
                          !.sharedWith = files[f].sharedWith] = files[f]

isOwner(c) == userOf(c) # None /\ users[userOf(c)].role = "owner"

(* C14: a mutation called by a user whose role is not owner leaves the set *)
(* of folders and files as it is and, in each of them, every field but     *)
(* sharedWithFamily and sharedWith.                                        *)
C14_NonOwnerFrame ==
  \A c \in AllClerks :
    ~isOwner(c)
    => /\ EveryItemCall(c, OpsFolderIds, OpsFileIds, sameButSharing)
       /\ EveryFamilyCall(c, sameButSharing)

(* C14 witness: member 2, the assignee of a file with a name and tags of   *)
(* its own, changes the file's sharing fields; the member's renameFile,    *)
(* updateFileTags and deleteFile calls on the file fail.                   *)
C14_Witness ==
  \E f \in DOMAIN files :
    /\ users[2].role = "member" /\ files[f].assignedTo = 2
    /\ files[f].name = "b" /\ files[f].tags # {}
    /\ LET R == updateFileSharing(2, f, ~files[f].sharedWithFamily, {3})
       IN R.ok /\ R.files # files
    /\ ~renameFile(2, f, "a").ok
    /\ ~updateFileTags(2, f, {}).ok
    /\ ~deleteFile(2, f).ok

(* the sharing fields of every item of a table *)
sharingOf(tbl) ==
  [i \in DOMAIN tbl |-> <<tbl[i].sharedWithFamily, tbl[i].sharedWith>>]

(* the call failed and left the sharing fields of every item as they are *)
failedSharingKept(R) ==
  /\ ~R.ok
  /\ sharingOf(R.folders) = sharingOf(folders)
  /\ sharingOf(R.files) = sharingOf(files)

mayShareFolder(c, g) ==
  /\ userOf(c) # None /\ g \in DOMAIN folders
  /\ (folders[g].createdBy = userOf(c) \/ userOf(c) \in Elems(folders[g].assignedTo))

mayShareFile(c, f) ==
  /\ userOf(c) # None /\ f \in DOMAIN files
  /\ (files[f].uploadedBy = userOf(c) \/ files[f].assignedTo = userOf(c))

(* C15: updateFolderSharing, updateFileSharing and toggleShareFile called  *)
(* by anyone but the item's creator / uploader or one of its current       *)
(* assignees fail and leave sharedWithFamily and sharedWith of every item  *)
(* as they are.                                                            *)
C15_SharingByCreatorOrAssignee ==
  \A c \in AllClerks :
    /\ \A g \in OpsFolderIds :
         ~mayShareFolder(c, g)
         => \A b \in BOOLEAN, w \in OpsSharedWithArgs :
              failedSharingKept(updateFolderSharing(c, g, b, w))
    /\ \A f \in OpsFileIds :
         ~mayShareFile(c, f)
         => /\ \A b \in BOOLEAN, w \in OpsSharedWithArgs :
                 failedSharingKept(updateFileSharing(c, f, b, w))
            /\ failedSharingKept(toggleShareFile(c, f))

(* C15 witness: a folder and a file of owner 1 are assigned to member 2;   *)
(* the calls of member 3 and of the owner of family 2 fail, and those of   *)
(* member 2 change the sharing fields.                                     *)
C15_Witness ==
  \E g \in DOMAIN folders : \E f \in DOMAIN files :
    /\ folders[g].createdBy = 1 /\ Includes(folders[g].assignedTo, 2)
    /\ files[f].uploadedBy = 1 /\ files[f].assignedTo = 2
    /\ \A c \in {3, 4} :
         /\ ~updateFolderSharing(c, g, TRUE, {}).ok
         /\ ~updateFileSharing(c, f, TRUE, {}).ok
         /\ ~toggleShareFile(c, f).ok
    /\ sharingOf(updateFolderSharing(2, g, ~folders[g].sharedWithFamily, {}).folders)
         # sharingOf(folders)
    /\ sharingOf(toggleShareFile(2, f).files) # sharingOf(files)

(* the family the caller is in now, None for no user or no family *)
familyOfCaller(c) == IF userOf(c) = None THEN None ELSE users[userOf(c)].familyId

(* S holds every folder and file of a family other than the caller's       *)
(* exactly as it is                                                        *)
foreignItemsKept(c, S) ==
  /\ \A g \in DOMAIN folders :
       folders[g].familyId # familyOfCaller(c)
       => g \in DOMAIN S.folders /\ S.folders[g] = folders[g]
  /\ \A f \in DOMAIN files :
       files[f].familyId # familyOfCaller(c)
       => f \in DOMAIN S.files /\ S.files[f] = files[f]

(* C16: no call of a mutation changes a folder or file whose familyId      *)
(* differs from the current familyId of the caller.                        *)
C16_NoCrossFamilyWrite ==
  \A c \in AllClerks :
    /\ EveryItemCall(c, FamFolderIds, FamFileIds,
                     LAMBDA S : foreignItemsKept(c, S))
    /\ EveryFamilyCall(c, LAMBDA S : foreignItemsKept(c, S))

(* the users an item's assignedTo refers to *)
folderAssignees(g) == Elems(folders[g].assignedTo)
fileAssignees(f) == IF files[f].assignedTo = None THEN {} ELSE {files[f].assignedTo}

(* C17: every user a folder's or file's assignedTo refers to is in the     *)
(* family of that folder or file.                                          *)
C17_AssigneesInFamily ==
  /\ \A g \in DOMAIN folders : \A u \in folderAssignees(g) :
       u \in DOMAIN users /\ users[u].familyId = folders[g].familyId
  /\ \A f \in DOMAIN files : \A u \in fileAssignees(f) :
       u \in DOMAIN users /\ users[u].familyId = files[f].familyId

(* the existing files among the listed ids that the caller uploaded *)
listedOwn(c, fs) ==
  {f \in Range(fs) \cap DOMAIN files : files[f].uploadedBy = userOf(c)}

(* C18: bulkDeleteFiles called by an owner with any list of ids raises no  *)
(* error, deletes exactly the listed files the caller uploaded, leaves     *)
(* every other file and every folder as it is, and returns the key of each *)
(* deleted file once and nothing else.                                     *)
C18_BulkDeleteExactlyOwn ==
  \A c \in AllClerks : \A fs \in IdLists(BulkFileIds) :
    isOwner(c)
    => LET R == bulkDeleteFiles(c, fs) IN
         /\ R.ok
         /\ DOMAIN R.files = DOMAIN files \ listedOwn(c, fs)
         /\ \A f \in DOMAIN R.files : R.files[f] = files[f]
         /\ R.folders = folders
         /\ Range(R.ret) = {files[f].fileKey : f \in listedOwn(c, fs)}
         /\ Len(R.ret) = Cardinality(listedOwn(c, fs))

(* C18 witness: owner 1 lists a file of the owner of family 2, the id of a *)
(* missing file and a file of owner 1; the call deletes the last one only  *)
(* and returns its key.                                                    *)
C18_Witness ==
  \E f \in DOMAIN files : \E h \in DOMAIN files : \E x \in BulkFileIds :
    /\ files[f].uploadedBy = 1
    /\ files[h].uploadedBy = 4 /\ files[h].familyId # users[1].familyId
    /\ x \notin DOMAIN files
    /\ LET R == bulkDeleteFiles(1, <<h, x, f>>) IN
         /\ R.ok
         /\ DOMAIN R.files = {h}
         /\ R.ret = <<files[f].fileKey>>

(* C19: bulkMoveFiles and bulkAssignFiles give a listed file the new       *)
(* folder / assignee exactly when moveFile / updateFileAssignment by the   *)
(* same caller with the same argument succeeds on it, and leave every      *)
(* other file as it is.                                                    *)
C19_BulkAsSingle ==
  \A c \in AllClerks : \A fs \in SUBSET BulkFileIds :
    /\ \A d \in OptBulkFolder :
         LET R == bulkMoveFiles(c, fs, d) IN
           /\ DOMAIN R.files = DOMAIN files
           /\ \A f \in DOMAIN files :
                R.files[f] = IF f \in fs /\ moveFile(c, f, d).ok
                             THEN moveFile(c, f, d).files[f]
                             ELSE files[f]
           /\ \A f \in fs \ DOMAIN files : ~moveFile(c, f, d).ok
    /\ \A a \in AssigneeArgs :
         LET R == bulkAssignFiles(c, fs, a) IN
           /\ DOMAIN R.files = DOMAIN files
           /\ \A f \in DOMAIN files :
                R.files[f] = IF f \in fs /\ updateFileAssignment(c, f, a).ok
                             THEN updateFileAssignment(c, f, a).files[f]
                             ELSE files[f]
           /\ \A f \in fs \ DOMAIN files : ~updateFileAssignment(c, f, a).ok

(* C19 witness: owner 1 lists a file of the owner of family 2 and a file   *)
(* of owner 1; bulkMoveFiles and bulkAssignFiles change the second only,   *)
(* and moveFile / updateFileAssignment succeed on the second only.         *)
C19_Witness ==
  \E f \in DOMAIN files : \E h \in DOMAIN files : \E d \in DOMAIN folders :
    /\ files[f].uploadedBy = 1 /\ files[h].uploadedBy = 4
    /\ files[f].folderId # d /\ files[f].assignedTo # 2
    /\ moveFile(1, f, d).ok /\ ~moveFile(1, h, d).ok
    /\ updateFileAssignment(1, f, 2).ok /\ ~updateFileAssignment(1, h, 2).ok
    /\ LET R == bulkMoveFiles(1, {f, h}, d) IN
         R.files[f].folderId = d /\ R.files[h] = files[h]
    /\ LET R == bulkAssignFiles(1, {f, h}, 2) IN
         R.files[f].assignedTo = 2 /\ R.files[h] = files[h]

(***************************************************************************)
(* The checks of the single-item write operations: the caller resolves to  *)
(* a user, the target exists, the rule of the operation holds, and a       *)
(* declared parent / folder exists in the same family.                     *)
(***************************************************************************)
noUser(c) == userOf(c) = None

notOwner(c) == noUser(c) \/ users[userOf(c)].role # "owner"

notOwnerCreator(c, g) ==
  notOwner(c) \/ g \notin DOMAIN folders \/ folders[g].createdBy # userOf(c)

notOwnerUploader(c, f) ==
  notOwner(c) \/ f \notin DOMAIN files \/ files[f].uploadedBy # userOf(c)

(* p is given and is no folder of the family fam *)
badFolderRef(p, fam) ==
  p # None /\ (p \notin DOMAIN folders \/ folders[p].familyId # fam)

(* the call raised an error if the check failed, and a call that raised an *)
(* error left users, folders and files as they are                         *)
failsClean(checkFails, R) ==
  /\ checkFails => ~R.ok
  /\ ~R.ok => /\ Store(R).users = users
              /\ R.folders = folders
              /\ R.files = files
              /\ R.nextFolderId = nextFolderId
              /\ R.nextFileId = nextFileId

(* C20: a single-item write operation (create, rename, move, delete,       *)
(* assignment, sharing, tags, on folders and files) that fails a check     *)
(* raises an error, and a call that raises an error leaves users, folders  *)
(* and files exactly as they were.                                         *)
C20_FailedCallChangesNothing ==
  \A c \in AllClerks :
    /\ \A n \in Names, p \in OptOpsFolder, a \in AllFolderAssignArgs :
         failsClean(notOwner(c) \/ badFolderRef(p, familyOfCaller(c)),
                    createFolder(c, n, p, a))
    /\ \A n \in Names, a \in AssigneeArgs, t \in TagArgs, d \in OptOpsFolder :
         failsClean(notOwner(c) \/ badFolderRef(d, familyOfCaller(c)),
                    createFile(c, n, uploadKey(nextFileId), a, t, d))
    /\ \A g \in OpsFolderIds :
         /\ \A n \in Names :
              failsClean(notOwnerCreator(c, g), renameFolder(c, g, n))
         /\ \A dc \in BOOLEAN :
              failsClean(notOwnerCreator(c, g), deleteFolder(c, g, dc))
         /\ \A a \in AllFolderAssignArgs :
              failsClean(notOwnerCreator(c, g), updateFolderAssignment(c, g, a))
         /\ \A b \in BOOLEAN, w \in OpsSharedWithArgs :
              failsClean(~mayShareFolder(c, g), updateFolderSharing(c, g, b, w))
         /\ \A p \in OptOpsFolder :
              failsClean(\/ notOwnerCreator(c, g)
                         \/ badFolderRef(p, folders[g].familyId)
                         \/ p \in {g} \cup descendantsIn(folders, g),
                         moveFolder(c, g, p))
    /\ \A f \in OpsFileIds :
         /\ \A n \in Names :
              failsClean(notOwnerUploader(c, f), renameFile(c, f, n))
         /\ failsClean(notOwnerUploader(c, f), deleteFile(c, f))
         /\ \A t \in TagArgs :
              failsClean(notOwnerUploader(c, f), updateFileTags(c, f, t))
         /\ \A a \in AssigneeArgs :
              failsClean(notOwnerUploader(c, f), updateFileAssignment(c, f, a))
         /\ \A b \in BOOLEAN, w \in OpsSharedWithArgs :
              failsClean(~mayShareFile(c, f), updateFileSharing(c, f, b, w))
         /\ failsClean(~mayShareFile(c, f), toggleShareFile(c, f))
         /\ \A d \in OptOpsFolder :
              failsClean(\/ notOwnerUploader(c, f)
                         \/ badFolderRef(d, files[f].familyId),
                         moveFile(c, f, d))

(* C20 witness: a folder and a file of owner 1 exist, with sharing fields  *)
(* set; a call by a clerk id without a user, a rename by a member, a       *)
(* delete by the owner of the other family, a move of the file to a        *)
(* missing folder and a move of the folder into itself all raise an error. *)
C20_Witness ==
  \E g \in DOMAIN folders : \E f \in DOMAIN files :
    /\ folders[g].createdBy = 1 /\ files[f].uploadedBy = 1
    /\ folders[g].sharedWithFamily /\ files[f].sharedWith # {}
    /\ ~toggleShareFile(NoSuchClerk, f).ok
    /\ ~renameFolder(2, g, "b").ok
    /\ ~deleteFile(4, f).ok
    /\ ~moveFile(1, f, nextFolderId).ok
    /\ ~moveFolder(1, g, g).ok

(***************************************************************************)
(* Claims about the read queries for callers without user, family or       *)
(* permission.                                                             *)
(***************************************************************************)
emptyContents == [folder |-> None, files |-> {}, subfolders |-> {}]

emptyPath(R) == R.ok /\ R.path = <<>>

(* the caller is in the folder's family and none of the access rules of    *)
(* getFolderContents admits the caller                                     *)
noFolderAccess(c, g) ==
  \/ folders[g].familyId # familyOfCaller(c)
  \/ /\ folders[g].createdBy # userOf(c)
     /\ userOf(c) \notin Elems(folders[g].assignedTo)
     /\ Elems(folders[g].assignedTo) # {}
     /\ ~folders[g].sharedWithFamily
     /\ userOf(c) \notin folders[g].sharedWith

FamScopes == (FamFolderIds \cup {None}) \X BOOLEAN

(* C21: for an unknown caller and for a caller without a family every read *)
(* query returns an empty collection (the empty folder contents), for a    *)
(* caller without access to the folder getFolderContents and getFolderPath *)
(* do, for a caller who is no owner getAllFoldersForPicker does, and no    *)
(* query ends in an error.                                                 *)
C21_ReadsDegradeToEmpty ==
  \A c \in AllClerks :
    /\ \A g \in FamFolderIds \cup {None} : getFolderPath(c, g).ok
    /\ (noUser(c) \/ familyOfCaller(c) = None)
       => /\ \A p \in FamFolderIds \cup {None} :
               /\ getMyFolders(c, p) = {}
               /\ getSharedFolders(c, p) = {}
               /\ emptyPath(getFolderPath(c, p))
          /\ \A g \in FamFolderIds : getFolderContents(c, g) = emptyContents
          /\ getAllFoldersForPicker(c) = {}
          /\ \A sc \in FamScopes :
               /\ getMyFiles(c, sc[1], sc[2]) = {}
               /\ getSharedFiles(c, sc[1], sc[2]) = {}
          /\ \A t \in SearchTerms : searchFiles(c, t) = {}
    /\ \A g \in DOMAIN folders :
         /\ noFolderAccess(c, g) => getFolderContents(c, g) = emptyContents
         /\ folders[g].familyId # familyOfCaller(c)
            => emptyPath(getFolderPath(c, g))
    /\ ~isOwner(c) => getAllFoldersForPicker(c) = {}

(* C21 witness: user 2 has left family 1, where a folder and a file are    *)
(* still assigned to user 2, and gets empty results; member 3 has no       *)
(* access to the folder and gets the empty folder contents, while owner 1  *)
(* gets the folder.                                                        *)
C21_Witness ==
  \E g \in DOMAIN folders : \E f \in DOMAIN files :
    /\ users[2].familyId = None
    /\ Includes(folders[g].assignedTo, 2) /\ files[f].assignedTo = 2
    /\ getMyFolders(2, None) = {} /\ getMyFiles(2, None, FALSE) = {}
    /\ users[3].familyId = folders[g].familyId /\ noFolderAccess(3, g)
    /\ getFolderContents(3, g) = emptyContents
    /\ getFolderContents(1, g).folder = g
    /\ getFolderPath(1, g).path = <<g>>

(* C22: a successful moveFile followed by the moveFile back to the folder  *)
(* (or root) the file was in succeeds and leaves the file, with its        *)
(* folderId, name, tags, assignment, sharing fields and storage key, and   *)
(* every other document, as it was before the two calls.                   *)
C22_MoveRoundTrip ==
  last.op = "moveFileBack"
  => /\ last.ok
     /\ files[last.args.fileId] = prev.files[last.args.fileId]
     /\ files = prev.files
     /\ folders = prev.folders

(* C22 witness: a file with a name, a tag, an assignee and sharing fields  *)
(* was moved from one folder to another one and back.                      *)
C22_Witness ==
  /\ last.op = "moveFileBack" /\ last.ok
  /\ last.args.via # None /\ last.args.folderId # None
  /\ last.args.via # last.args.folderId
  /\ LET f == files[last.args.fileId] IN
       /\ f.folderId = last.args.folderId
       /\ f.assignedTo = 2 /\ f.tags # {} /\ f.sharedWithFamily
       /\ f.sharedWith # {}

(* the owners of the family fam *)
ownersOf(fam) ==
  {u \in DOMAIN users : users[u].familyId = fam /\ users[u].role = "owner"}

(* the families some user, folder or file belongs to *)
familiesInUse ==
  familyIds \cup {folders[g].familyId : g \in DOMAIN folders}
            \cup {files[f].familyId : f \in DOMAIN files}

(* the call left every user with role owner as the user was *)
ownersKept(S) ==
  \A u \in DOMAIN users :
    users[u].role = "owner" => u \in DOMAIN S.users /\ S.users[u] = users[u]

(* C23: every family has exactly one user with role owner, and no call of  *)
(* createFamily, joinFamily, leaveFamily or removeMember takes the role or *)
(* the family from a user with role owner.                                 *)
C23_OneOwnerPerFamily ==
  /\ \A fam \in familiesInUse : Cardinality(ownersOf(fam)) = 1
  /\ \A u \in DOMAIN users : users[u].role = "owner" => users[u].familyId # None
  /\ \A c \in AllClerks : EveryFamilyCall(c, ownersKept)

(* C23 witness: user 2 left family 1 and created a family, which user 3    *)
(* joined; the owners' leaveFamily calls and the removal of an owner fail. *)
C23_Witness ==
  /\ users[2].role = "owner" /\ users[2].familyId \notin {None, 1}
  /\ users[3].role = "member" /\ users[3].familyId = users[2].familyId
  /\ ~leaveFamily(1).ok /\ ~leaveFamily(2).ok
  /\ ~removeMember(2, 2).ok /\ ~removeMember(1, 2).ok
  /\ ~createFamily(1).ok /\ ~joinFamily(2, 1).ok

(* A move call that is valid on the folders table fo: the caller is the   *)
(* owner who created the folder, and the target is the root or a folder   *)
(* of the same family that is neither the folder nor one of its            *)
(* descendants.                                                            *)
validMoveIn(fo, call) ==
  LET g == call.folderId
      p == call.newParentFolderId
  IN /\ isOwner(call.clerkId)
     /\ g \in DOMAIN fo
     /\ fo[g].createdBy = userOf(call.clerkId)
     /\ \/ p = None
        \/ /\ p \in DOMAIN fo
           /\ fo[p].familyId = fo[g].familyId
           /\ p # g
           /\ g \notin ancestorsIn(fo, p)

raceDone == last.op = "race" /\ Len(last.args.order) = 2

(* C24: under every interleaving of two concurrent moveFolder calls, each  *)
(* committed as one atomic step, the folder tree stays acyclic; the calls  *)
(* "A under B" and "B under A" never both succeed; and two moves of the    *)
(* same folder to different parents, both valid when issued, both succeed  *)
(* and leave the folder under the parent of the call that committed last.  *)
C24_ConcurrentMovesKeepTree ==
  /\ \A g \in DOMAIN folders : g \notin chainFrom(folders, folders[g].parentFolderId,
                                                   Cardinality(DOMAIN folders))
  /\ raceDone =>
       LET a == last.args.calls[1]
           b == last.args.calls[2]
           okOf(i) == last.args.oks[CHOOSE k \in {1, 2} : last.args.order[k] = i]
           lastCall == last.args.calls[last.args.order[2]]
       IN /\ ( /\ a.folderId # b.folderId
               /\ a.newParentFolderId = b.folderId
               /\ b.newParentFolderId = a.folderId )
             => ~(okOf(1) /\ okOf(2))
          /\ ( /\ a.folderId = b.folderId
               /\ a.newParentFolderId # b.newParentFolderId
               /\ validMoveIn(prev.folders, a)
               /\ validMoveIn(prev.folders, b) )
             => /\ okOf(1) /\ okOf(2)
                /\ folders[a.folderId].parentFolderId = lastCall.newParentFolderId

(* C24 witness: two calls that were each valid when issued, "1 under 2"    *)
(* and "2 under 1", have both run; the first to commit succeeded and the   *)
(* second was rejected.                                                    *)
C24_Witness ==
  /\ raceDone
  /\ LET a == last.args.calls[1]
         b == last.args.calls[2]
     IN /\ a.folderId # b.folderId
        /\ a.newParentFolderId = b.folderId
        /\ b.newParentFolderId = a.folderId
        /\ validMoveIn(prev.folders, a)
        /\ validMoveIn(prev.folders, b)
        /\ last.args.oks = <<TRUE, FALSE>>
        /\ last.args.order = <<2, 1>>

(* the user u is the owner of the family fam *)
ownerOfFamily(u, fam) ==
  u \in DOMAIN users /\ users[u].role = "owner" /\ users[u].familyId = fam

(* a successful creation by c inserted exactly the item new into table     *)
(* after, over table before, as an unshared item of the caller's family    *)
createdFresh(c, before, after, new) ==
  /\ isOwner(c)
  /\ new \notin DOMAIN before
  /\ DOMAIN after = DOMAIN before \cup {new}
  /\ \A i \in DOMAIN before : after[i] = before[i]
  /\ after[new].familyId = familyOfCaller(c)
  /\ after[new].familyId # None
  /\ after[new].sharedWithFamily = FALSE
  /\ after[new].sharedWith = {}

(* C25: createFolder and createFile succeed only for a caller with role    *)
(* owner; the item they insert has the caller's familyId, sharedWithFamily *)
(* false and an empty sharedWith; and in every reachable state each        *)
(* folder's createdBy and each file's uploadedBy is the owner of the       *)
(* item's family.                                                          *)
C25_CreatedByFamilyOwner ==
  /\ \A g \in DOMAIN folders : ownerOfFamily(folders[g].createdBy, folders[g].familyId)
  /\ \A f \in DOMAIN files : ownerOfFamily(files[f].uploadedBy, files[f].familyId)
  /\ \A c \in AllClerks :
       /\ \A n \in Names, p \in DOMAIN folders \cup {None, nextFolderId},
             a \in AllFolderAssignArgs :
            LET R == createFolder(c, n, p, a) IN
              R.ok => /\ createdFresh(c, folders, R.folders, nextFolderId)
                      /\ R.folders[nextFolderId].createdBy = userOf(c)
                      /\ R.files = files
       /\ \A n \in Names, a \in AssigneeArgs, t \in TagArgs,
             d \in DOMAIN folders \cup {None, nextFolderId} :
            LET R == createFile(c, n, uploadKey(nextFileId), a, t, d) IN
              R.ok => /\ createdFresh(c, files, R.files, nextFileId)
                      /\ R.files[nextFileId].uploadedBy = userOf(c)
                      /\ R.folders = folders

(* C25 witness: a user who left family 1 and founded a family of their own *)
(* has created a folder and a file there, while a member's createFile is   *)
(* refused.                                                                *)
C25_Witness ==
  /\ \E g \in DOMAIN folders, f \in DOMAIN files :
       /\ folders[g].createdBy = 2 /\ folders[g].familyId = 3
       /\ files[f].uploadedBy = 2 /\ files[f].familyId = 3
  /\ users[3].role = "member"
  /\ ~createFile(3, "a", uploadKey(nextFileId), None, {}, None).ok

(* the path is the chain of folders from a root-level folder down to T *)
chainFromRootTo(path, T) ==
  /\ Len(path) >= 1
  /\ path[Len(path)] = T
  /\ \A i \in 1..Len(path) : path[i] \in DOMAIN folders
  /\ \A i \in 2..Len(path) : folders[path[i]].parentFolderId = path[i - 1]
  /\ folders[path[1]].parentFolderId = None

(* C26: for every caller and every existing folder T of the caller's       *)
(* family, getFolderPath(T) returns the ancestor chain from the root to T: *)
(* the last element is T, each element's parentFolderId is the element     *)
(* before it, and the first element is a root-level folder.                *)
C26_PathFromRoot ==
  \A c \in DOMAIN users, T \in DOMAIN folders :
    (familyOfCaller(c) # None /\ folders[T].familyId = familyOfCaller(c))
      => LET R == getFolderPath(c, T) IN R.ok /\ chainFromRootTo(R.path, T)

(* Where every parentFolderId refers to an existing folder, the path is    *)
(* the chain from the root.                                                *)
C26_PathFromRootUnlessOrphan == C4_NoOrphanFolder => C26_PathFromRoot

(* a stored assignment: absent, or a list with at least one user *)
absentOrNonEmpty(assignedTo) == IsDefined(assignedTo) => Elems(assignedTo) # {}

(* what is stored for the argument a: nothing for an omitted or empty list *)
storedFor(a) == IF IsDefined(a) /\ Elems(a) # {} THEN a ELSE Undefined

(* C27: a stored folder assignment is never an empty list: in every        *)
(* reachable state each folder's assignedTo is absent or non-empty, and a  *)
(* successful createFolder or updateFolderAssignment with an empty or      *)
(* omitted assignedTo leaves the folder's assignedTo absent.               *)
C27_NoEmptyAssignment ==
  /\ \A g \in DOMAIN folders : absentOrNonEmpty(folders[g].assignedTo)
  /\ \A c \in AllClerks, a \in AllFolderAssignArgs :
       /\ \A p \in DOMAIN folders \cup {None} :
            LET R == createFolder(c, "a", p, a) IN
              R.ok => R.folders[nextFolderId].assignedTo = storedFor(a)
       /\ \A g \in DOMAIN folders :
            LET R == updateFolderAssignment(c, g, a) IN
              R.ok => R.folders[g].assignedTo = storedFor(a)

(* C27 witness: a folder that is assigned to user 2 is about to have its   *)
(* assignment cleared by the owner's updateFolderAssignment with an empty  *)
(* list, and another folder was stored with no assignment.                 *)
C27_Witness ==
  \E g \in DOMAIN folders :
    /\ folders[g].assignedTo = Arr({2})
    /\ updateFolderAssignment(1, g, Arr({})).ok
    /\ updateFolderAssignment(1, g, Arr({})).folders[g].assignedTo = Undefined
    /\ createFolder(1, "a", None, Arr({})).ok

(* C28: deleteFile succeeds only when the caller has role owner and is the *)
(* file's uploader; on success exactly that file record is removed, the    *)
(* returned fileKey is that file's storage key, and every other file and   *)
(* every folder is unchanged.                                              *)
C28_DeleteFileExactlyOne ==
  \A c \in AllClerks, f \in DOMAIN files \cup {nextFileId} :
    LET R == deleteFile(c, f) IN
      R.ok => /\ isOwner(c)
              /\ f \in DOMAIN files
              /\ files[f].uploadedBy = userOf(c)
              /\ DOMAIN R.files = DOMAIN files \ {f}
              /\ \A h \in DOMAIN R.files : R.files[h] = files[h]
              /\ R.folders = folders
              /\ R.ret = <<files[f].fileKey>>

(* C28 witness: with a file of owner 1 and a file of owner 4 in the store, *)
(* owner 1's deleteFile of the own file succeeds and leaves the other      *)
(* file, and owner 4's deleteFile of owner 1's file is refused.            *)
C28_Witness ==
  \E f \in DOMAIN files, h \in DOMAIN files :
    /\ files[f].uploadedBy = 1
    /\ files[h].uploadedBy = 4
    /\ deleteFile(1, f).ok
    /\ DOMAIN deleteFile(1, f).files = DOMAIN files \ {f}
    /\ h \in DOMAIN deleteFile(1, f).files
    /\ ~deleteFile(4, f).ok
    /\ ~deleteFile(2, f).ok

(* the documents of the folders G and of the files F *)
folderDocs(G) == [g \in G |-> folders[g]]
fileDocs(F) == [f \in F |-> files[f]]

(* everything the read queries return to the caller c, for every argument  *)
(* over the folder ids IsoFolderIds                                        *)
readsOf(c) ==
  [myFolders |-> [p \in OptIsoFolder |-> folderDocs(getMyFolders(c, p))],
   sharedFolders |-> [p \in OptIsoFolder |-> folderDocs(getSharedFolders(c, p))],
   picker |-> folderDocs(getAllFoldersForPicker(c)),
   myFiles |-> [d \in OptIsoFolder, r \in BOOLEAN |-> fileDocs(getMyFiles(c, d, r))],
   sharedFiles |-> [d \in OptIsoFolder, r \in BOOLEAN |->
                      fileDocs(getSharedFiles(c, d, r))],
   allFiles |-> fileDocs(getAllFamilyFiles(c)),
   search |-> [t \in {"", "a"} |-> fileDocs(searchFiles(c, t))],
   contents |-> [g \in IsoFolderIds |->
                   LET R == getFolderContents(c, g) IN
                     [folder |-> folderDocs({R.folder} \ {None}),
                      files |-> fileDocs(R.files),
                      subfolders |-> folderDocs(R.subfolders)]],
   path |-> [g \in OptIsoFolder |->
               LET R == getFolderPath(c, g) IN
                 [ok |-> R.ok, path |-> R.path,
                  names |-> [i \in 1..Len(R.path) |-> folders[R.path[i]].name]]]]

(* the folders and the files the read queries return to c *)
foldersReadBy(c) ==
  LET R == readsOf(c) IN
  UNION {DOMAIN R.myFolders[p] \cup DOMAIN R.sharedFolders[p]
           \cup Range(R.path[p].path) : p \in OptIsoFolder}
    \cup DOMAIN R.picker
    \cup UNION {DOMAIN R.contents[g].folder \cup DOMAIN R.contents[g].subfolders :
                  g \in IsoFolderIds}

filesReadBy(c) ==
  LET R == readsOf(c) IN
  UNION {DOMAIN R.myFiles[d, r] \cup DOMAIN R.sharedFiles[d, r] :
           d \in OptIsoFolder, r \in BOOLEAN}
    \cup DOMAIN R.allFiles
    \cup UNION {DOMAIN R.search[t] : t \in {"", "a"}}
    \cup UNION {DOMAIN R.contents[g].files : g \in IsoFolderIds}

(* the items of the family fam *)
itemsOf(fam) ==
  [folders |-> folderDocs({g \in DOMAIN folders : folders[g].familyId = fam}),
   files |-> fileDocs({f \in DOMAIN files : files[f].familyId = fam})]

readsOwnFamilyOnly ==
  \A c \in AllClerks :
    /\ \A g \in foldersReadBy(c) :
         familyOfCaller(c) # None /\ folders[g].familyId = familyOfCaller(c)
    /\ \A f \in filesReadBy(c) :
         familyOfCaller(c) # None /\ files[f].familyId = familyOfCaller(c)

readsKeptByForeignChange ==
  \A c \in AllClerks :
    ( /\ users' = users
      /\ <<folders, files>>' # <<folders, files>>
      /\ itemsOf(familyOfCaller(c))' = itemsOf(familyOfCaller(c)) )
      => readsOf(c)' = readsOf(c)

(* C29: no read query returns to a caller a folder or file of a family     *)
(* other than the caller's current one (so a user removed from a family    *)
(* gets no item of it afterwards), and between two stores that differ only *)
(* in items of other families every read query of the caller returns the   *)
(* same result.                                                            *)
C29_ReadsIsolatedByFamily ==
  []readsOwnFamilyOnly /\ [][readsKeptByForeignChange]_vars

(* C29 witness: user 2 has been removed from family 1 and reads nothing,   *)
(* although a folder and a file of family 1 are still assigned to user 2;  *)
(* family 2 has a file, and owner 1 reads the items of family 1 only.      *)
C29_Witness ==
  /\ users[2].familyId = None
  /\ \E g \in DOMAIN folders, f \in DOMAIN files, h \in DOMAIN files :
       /\ folders[g].familyId = 1 /\ Includes(folders[g].assignedTo, 2)
       /\ files[f].familyId = 1 /\ files[f].assignedTo = 2 /\ files[f].folderId = g
       /\ files[h].familyId = 2
       /\ foldersReadBy(2) = {} /\ filesReadBy(2) = {}
       /\ filesReadBy(1) = {f} /\ g \in foldersReadBy(1)
       /\ filesReadBy(4) = {h}

(* the folders of the family fam *)
familyFolders(fam) == {g \in DOMAIN folders : folders[g].familyId = fam}

(* the parent references of the store and one id that was never given out: *)
(* every folder id a caller can name, existing or not                      *)
folderRefs ==
  DOMAIN folders \cup {nextFolderId}
    \cup ({folders[g].parentFolderId : g \in DOMAIN folders} \ {None})

(* the caller passes the checks that precede the walk of moveFolder *)
reachesWalk(c, g) ==
  isOwner(c) /\ g \in DOMAIN folders /\ folders[g].createdBy = userOf(c)

(* the walk of moveFolder(g, p) ends after reading at most as many         *)
(* existing folders as the family of g has                                 *)
moveWalkBounded(g, p) ==
  /\ walkParents(p, g, {}) # "loop"
  /\ Cardinality(walkGets(p, g, {}) \cap DOMAIN folders)
       <= Cardinality(familyFolders(folders[g].familyId))

(* the walk of getFolderPath(T) by c ends after putting at most as many    *)
(* folders on the path as the caller's family has                          *)
pathWalkBounded(c, T) ==
  LET R == getFolderPath(c, T) IN
    /\ R.ok
    /\ Len(R.path) <= Cardinality(familyFolders(familyOfCaller(c)))
    /\ R.gets <= Len(R.path) + 1

(* C30: in every reachable state the ancestor walk of moveFolder and the   *)
(* parent walk of getFolderPath end after visiting at most as many folders *)
(* as exist in the family, also when the chain reaches a parent reference  *)
(* whose folder no longer exists.                                          *)
C30_WalksBoundedByFamily ==
  /\ \A c \in DOMAIN users, g \in DOMAIN folders, p \in folderRefs :
       reachesWalk(c, g) => moveWalkBounded(g, p)
  /\ \A c \in DOMAIN users, T \in folderRefs :
       familyOfCaller(c) # None => pathWalkBounded(c, T)

(* The walks are bounded by the family's folders where the target of the   *)
(* move is not a folder of another family.                                 *)
C30_WalksBoundedInFamily ==
  /\ \A c \in DOMAIN users, g \in DOMAIN folders, p \in folderRefs :
       ( /\ reachesWalk(c, g)
         /\ p \in DOMAIN folders => folders[p].familyId = folders[g].familyId )
         => moveWalkBounded(g, p)
  /\ \A c \in DOMAIN users, T \in folderRefs :
       familyOfCaller(c) # None => pathWalkBounded(c, T)

(* Every walk ends, after reading no more folders than the store holds.    *)
C30_WalksEnd ==
  /\ \A g \in DOMAIN folders, p \in folderRefs :
       /\ walkParents(p, g, {}) # "loop"
       /\ Cardinality(walkGets(p, g, {}) \cap DOMAIN folders)
            <= Cardinality(DOMAIN folders)
  /\ \A c \in DOMAIN users, T \in folderRefs : getFolderPath(c, T).ok

====
